---- MODULE Spec2Model ----
(***************************************************************************)
(* Marathon photobooth backend: the request path of POST /api/generate     *)
(* (per-kiosk rate limiter, required-field check, queue-depth check,       *)
(* generationQueue.add), the p-queue scheduler it is configured with, the  *)
(* processGeneration worker with its session / kiosk-counter bookkeeping,  *)
(* and the 30-minute session sweep.                                        *)
(*                                                                         *)
(* JavaScript runs one synchronous segment at a time.  Every action below  *)
(* is one such segment (a request handler up to its first await, an I/O    *)
(* completion up to the next await, a timer callback).  A promise that     *)
(* has settled is a pending microtask: it runs before any other segment,   *)
(* so every macrotask action is guarded by ~MicrotaskPending.              *)
(*                                                                         *)
(* Time is in milliseconds since process start.                            *)
(***************************************************************************)
EXTENDS Integers, Sequences, FiniteSets, TLC

\* ------------------------------------------------------------ bounds
MaxRequests == 2        \* requests the clients send (Spec)
MaxTicks == 4           \* clock advances in one behaviour (Spec, SpecLimiter)
MaxFineTicks == 2       \* clock advances in one behaviour (SpecQueue, SpecCapacity)
MaxBurst == 5           \* requests the clients send (SpecQueue)
MaxHits == 7            \* requests the clients send (SpecLimiter)
MaxExtra == 2           \* requests sent on top of the backlog (SpecCapacity)
MaxSerial == 4          \* requests sent on top of the backlog (SpecSerial)
MaxSerialTicks == 1     \* clock advances in one behaviour (SpecSerial)
MaxLive == 4            \* requests the clients send (SpecLive)
MaxLiveTicks == 0       \* timers that elapse while an invocation runs (SpecLive)
MaxWaiting == 2         \* requests the clients send (SpecTimeout)
MaxTimeoutTicks == 4    \* clock advances in one behaviour (SpecTimeout)
MaxBypassHits == 12     \* requests the clients send (SpecBypass)
MaxBypassTicks == 1     \* clock advances in one behaviour (SpecBypass)
MaxPairHits == 7        \* requests the clients send in the first run (SpecIsolation)
MaxPairTicks == 2       \* clock advances in one behaviour (SpecIsolation)
MaxTwinExtra == 6       \* requests of the differing kiosk in the second run
MaxBudgetHits == 7      \* requests sent on top of the backlog (SpecBudget)
MaxBudgetTicks == 2     \* clock advances in one behaviour (SpecBudget)
MaxVariantReqs == 3     \* requests the clients send (SpecVariants)
MaxVariantTicks == 1    \* clock advances in one behaviour (SpecVariants)
MaxVisitors == 22       \* requests the clients send (SpecMonitor)
MaxMonitorTicks == 3    \* clock advances to the sweep in one behaviour (SpecMonitor)

\* ------------------------------------------------- program constants
Concurrency == 2
Interval == 1000
IntervalCap == 3
WindowMs == 60000
LimiterMax == 5
QueueCeiling == 10
SweepPeriod == 1800000
Retention == 3600000
VipPriority == 1
DefaultPriority == 0
DefaultTimeout == 120000
RecentLimit == 20
VipTimeout == 180000

KnownKiosks == {"kiosk-1", "kiosk-2", "kiosk-3", "kiosk-4"}
VipKiosk == "kiosk-3"
UnknownKiosk == "unknown"
BypassId == "test-script"
LimiterKeys == KnownKiosks \cup {UnknownKiosk, BypassId}

NoTimer == -1           \* a cleared timer id / an undefined timestamp
Undefined == -1

\* clock steps of the specifications
FineStep == Interval \div 2
WindowStep == WindowMs \div 2
SweepStep == SweepPeriod
TimeoutStep == DefaultTimeout \div 2

VARIABLES
  now,             \* Date.now()
  ticks,           \* clock advances so far
  reqLeft,         \* requests the clients may still send
  kioskStats,      \* kioskStats
  activeSessions,  \* activeSessions (a Map: insertion-ordered)
  queue,           \* generationQueue: the priority queue's array
  pendingCount,    \* generationQueue.pending
  intervalCount,   \* generationQueue: dispatches in the current interval
  intervalId,      \* generationQueue: next firing of setInterval, or NoTimer
  intervalEnd,     \* generationQueue: end of the interval last initialised
  timeoutId,       \* generationQueue: firing of the resume timeout, or NoTimer
  workers,         \* processGeneration invocations in flight
  nextSid,         \* next session identifier (uuidv4 stands for a fresh one)
  requests,        \* the HTTP requests received and their responses
  limiter,         \* kioskLimiter's store: per key, hits and window end
  cleanupTimer,    \* next firing of the session sweep
  dispatchLog,     \* history: Queued -> Running transitions
  tally,           \* history: per session, what its worker did
  clientGone,      \* requests whose client stopped waiting (axios timeout)
  lastRead,        \* the monitoring response sent by the last step, if any
  twin,            \* a second run of the limiter, for comparing two runs
  app              \* the kiosk UI: the App component's state and timers

vars == <<now, ticks, reqLeft, kioskStats, activeSessions, queue,
          pendingCount, intervalCount, intervalId, intervalEnd, timeoutId,
          workers, nextSid, requests, limiter, cleanupTimer,
          dispatchLog, tally, clientGone, lastRead, twin, app>>

\* ------------------------------------------------------------ helpers
\* the part of the program state a synchronous cascade may change
Cur == [stats |-> kioskStats, sessions |-> activeSessions, queue |-> queue,
        pending |-> pendingCount, icount |-> intervalCount,
        iid |-> intervalId, iend |-> intervalEnd, tid |-> timeoutId,
        workers |-> workers, nextSid |-> nextSid, dlog |-> dispatchLog,
        tally |-> tally, guarded |-> TRUE]

Apply(S) ==
  /\ kioskStats' = S.stats
  /\ activeSessions' = S.sessions
  /\ queue' = S.queue
  /\ pendingCount' = S.pending
  /\ intervalCount' = S.icount
  /\ intervalId' = S.iid
  /\ intervalEnd' = S.iend
  /\ timeoutId' = S.tid
  /\ workers' = S.workers
  /\ nextSid' = S.nextSid
  /\ dispatchLog' = S.dlog
  /\ tally' = S.tally

\* ------------------------------------------------- session ledger (Map)
HasSession(sessions, id) == \E i \in 1..Len(sessions) : sessions[i].id = id

SessionIdx(sessions, id) == CHOOSE i \in 1..Len(sessions) : sessions[i].id = id

\* {...activeSessions.get(id)} of a missing key spreads undefined: no fields
BlankSession(id) ==
  [id |-> id, kioskId |-> "", startTime |-> Undefined, status |-> "",
   endTime |-> Undefined, error |-> "", outputFile |-> 0]

\* activeSessions.set(id, {kioskId, startTime, status: 'processing', ...})
SessionCreate(sessions, id, kioskId) ==
  Append(sessions, [BlankSession(id) EXCEPT !.kioskId = kioskId,
                                             !.startTime = now,
                                             !.status = "processing"])

\* activeSessions.set(id, {...activeSessions.get(id), status: 'completed',
\*                         endTime: Date.now(), outputFile: filename})
SessionComplete(sessions, id) ==
  LET upd(r) == [r EXCEPT !.status = "completed", !.endTime = now,
                          !.outputFile = id]
  IN IF HasSession(sessions, id)
     THEN [sessions EXCEPT ![SessionIdx(sessions, id)] = upd(@)]
     ELSE Append(sessions, upd(BlankSession(id)))

\* mutant: the failure is recorded without its endTime
SessionFailNoEndTime(sessions, id, msg) ==
  LET upd(r) == [r EXCEPT !.status = "failed", !.error = msg]
  IN IF HasSession(sessions, id)
     THEN [sessions EXCEPT ![SessionIdx(sessions, id)] = upd(@)]
     ELSE Append(sessions, upd(BlankSession(id)))

\* activeSessions.set(id, {...activeSessions.get(id), status: 'failed',
\*                         error: error.message, endTime: Date.now()})
SessionFail(sessions, id, msg) ==
  LET upd(r) == [r EXCEPT !.status = "failed", !.error = msg, !.endTime = now]
  IN IF HasSession(sessions, id)
     THEN [sessions EXCEPT ![SessionIdx(sessions, id)] = upd(@)]
     ELSE Append(sessions, upd(BlankSession(id)))

\* ------------------------------------------------------ kiosk counters
\* mutant: the submission is stamped but not counted
StatsSubmitUncounted(stats, k) ==
  IF k \in DOMAIN stats THEN [stats EXCEPT ![k].lastActive = now] ELSE stats

\* mutant: a submission for an identifier without counters provisions them
StatsSubmitProvisions(stats, k) ==
  IF k \in DOMAIN stats
  THEN [stats EXCEPT ![k].total = @ + 1, ![k].lastActive = now]
  ELSE [x \in DOMAIN stats \cup {k} |->
          IF x = k THEN [total |-> 1, completed |-> 0, failed |-> 0, lastActive |-> now]
          ELSE stats[x]]

\* kioskStats[kioskId]?.total !== undefined && (kioskStats[kioskId].total++);
\* kioskStats[kioskId] && (kioskStats[kioskId].lastActive = new Date());
StatsSubmit(stats, k) ==
  IF k \in DOMAIN stats
  THEN [stats EXCEPT ![k].total = @ + 1, ![k].lastActive = now]
  ELSE stats

\* mutant: the guard tests the counter's value, kioskStats[kioskId]?.completed &&
StatsCompletedTruthy(stats, k) ==
  IF k \in DOMAIN stats /\ stats[k].completed # 0
  THEN [stats EXCEPT ![k].completed = @ + 1] ELSE stats

\* kioskStats[kioskId]?.completed !== undefined && (kioskStats[kioskId].completed++)
StatsCompleted(stats, k) ==
  IF k \in DOMAIN stats THEN [stats EXCEPT ![k].completed = @ + 1] ELSE stats

\* mutant: the failure is counted as a completion as well
StatsFailedCountsBoth(stats, k) ==
  IF k \in DOMAIN stats
  THEN [stats EXCEPT ![k].failed = @ + 1, ![k].completed = @ + 1] ELSE stats

\* mutant: a failure takes the submission back out of total
StatsFailedReleases(stats, k) ==
  IF k \in DOMAIN stats
  THEN [stats EXCEPT ![k].failed = @ + 1, ![k].total = @ - 1] ELSE stats

\* kioskStats[kioskId]?.failed !== undefined && (kioskStats[kioskId].failed++)
StatsFailed(stats, k) ==
  IF k \in DOMAIN stats THEN [stats EXCEPT ![k].failed = @ + 1] ELSE stats

\* part_000: kioskStats[kioskId].total++; kioskStats[kioskId].lastActive = new
\* Date(), .completed++ and .failed++ without a guard (for an identifier
\* without counters the first of them throws, see EnteredThrows)
StatsSubmitUnguarded(stats, k) ==
  [stats EXCEPT ![k].total = @ + 1, ![k].lastActive = now]

StatsCompletedUnguarded(stats, k) == [stats EXCEPT ![k].completed = @ + 1]

StatsFailedUnguarded(stats, k) == [stats EXCEPT ![k].failed = @ + 1]

\* how much a counter of kiosk k grew (0 for an identifier without counters)
Grew(before, after, k, field) ==
  IF k \in DOMAIN before THEN after[k][field] - before[k][field] ELSE 0

\* ------------------------------------------------------ processGeneration
\* err: the error its promise is rejected with
Worker(sid, req, kiosk, pc) ==
  [sid |-> sid, req |-> req, kiosk |-> kiosk, pc |-> pc, err |-> ""]

\* throw error: the promise of the invocation is rejected with the error
Rethrow(ws, w, msg) == (ws \ {w}) \cup {[w EXCEPT !.pc = "rejected", !.err = msg]}

SetWorker(ws, w, pc) == (ws \ {w}) \cup {[w EXCEPT !.pc = pc]}

\* mutant: the catch block rethrows without any bookkeeping
CatchFailUnrecorded(S, w, msg, at) ==
  [S EXCEPT !.workers = SetWorker(@, w, "rejected"),
            !.tally = [@ EXCEPT ![w.sid].failedAt = at]]

\* mutant: the catch block records the failure and returns normally
CatchFailSwallows(S, w, msg, at) ==
  LET stats == StatsFailed(S.stats, w.kiosk)
  IN [S EXCEPT
        !.sessions = SessionFail(@, w.sid, msg),
        !.stats = stats,
        !.workers = SetWorker(@, w, "resolved"),
        !.tally = [@ EXCEPT
           ![w.sid].failedInc = @ + Grew(S.stats, stats, w.kiosk, "failed"),
           ![w.sid].failedAt = at,
           ![w.sid].status = "failed",
           ![w.sid].error = msg]]

\* mutant: a failed generation call is issued once more before giving up
CatchFailRetries(S, w, msg, at) ==
  LET stats == StatsFailed(S.stats, w.kiosk)
  IN IF at \in {"generate", "response"} /\ S.tally[w.sid].genCalls < 2
     THEN [S EXCEPT !.workers = SetWorker(@, w, "generate"),
                    !.tally = [@ EXCEPT ![w.sid].genCalls = @ + 1]]
     ELSE [S EXCEPT
             !.sessions = SessionFail(@, w.sid, msg),
             !.stats = stats,
             !.workers = Rethrow(@, w, msg),
             !.tally = [@ EXCEPT
                ![w.sid].failedInc = @ + Grew(S.stats, stats, w.kiosk, "failed"),
                ![w.sid].failedAt = at,
                ![w.sid].status = "failed",
                ![w.sid].error = msg]]

\* the catch block: record the failure in the session and the counters, rethrow
CatchFail(S, w, msg, at) ==
  LET stats == IF S.guarded THEN StatsFailed(S.stats, w.kiosk)
               ELSE StatsFailedUnguarded(S.stats, w.kiosk)
  IN [S EXCEPT
        !.sessions = SessionFail(@, w.sid, msg),
        !.stats = stats,
        !.workers = Rethrow(@, w, msg),
        !.tally = [@ EXCEPT
           ![w.sid].failedInc = @ + Grew(S.stats, stats, w.kiosk, "failed"),
           ![w.sid].completedInc = @ + Grew(S.stats, stats, w.kiosk, "completed"),
           ![w.sid].failedAt = at,
           ![w.sid].status = "failed",
           ![w.sid].error = msg]]

\* the success path after fs.writeFile resolved
FinishOk(S, w) ==
  LET stats == IF S.guarded THEN StatsCompleted(S.stats, w.kiosk)
               ELSE StatsCompletedUnguarded(S.stats, w.kiosk)
  IN [S EXCEPT
        !.sessions = SessionComplete(@, w.sid),
        !.stats = stats,
        !.workers = SetWorker(@, w, "resolved"),
        !.tally = [@ EXCEPT
           ![w.sid].completedInc = @ + Grew(S.stats, stats, w.kiosk, "completed"),
           ![w.sid].failedInc = @ + Grew(S.stats, stats, w.kiosk, "failed"),
           ![w.sid].status = "completed"]]

\* processGeneration up to its try block: counters, session, history entry
Entered(S, task) ==
  LET sid == S.nextSid
      stats == IF S.guarded THEN StatsSubmit(S.stats, task.kiosk)
               ELSE StatsSubmitUnguarded(S.stats, task.kiosk)
  IN [S EXCEPT
        !.nextSid = @ + 1,
        !.stats = stats,
        !.sessions = SessionCreate(@, sid, task.kiosk),
        !.workers = @ \cup {Worker(sid, task.req, task.kiosk, "readFile")},
        !.tally = Append(@, [kiosk |-> task.kiosk, completedInc |-> 0,
                             failedInc |-> 0, genCalls |-> 0,
                             reads |-> 0, failedAt |-> "",
                             status |-> "processing", error |-> "",
                             bgOk |-> task.bgOk, answer |-> "", writes |-> 0,
                             overlay |-> "", image |-> "", created |-> now,
                             persisted |-> 0,
                             totalInc |-> Grew(S.stats, stats, task.kiosk, "total")])]

\* part_000: kioskStats[kioskId].total++ without the guard.  For an identifier
\* without counters the statement throws a TypeError before the session is
\* recorded and outside the try block: the invocation's promise is rejected
\* and nothing else has happened
EnteredThrows(S, task) ==
  LET sid == S.nextSid
      w == Worker(sid, task.req, task.kiosk, "readFile")
  IN [S EXCEPT
        !.nextSid = @ + 1,
        !.workers = Rethrow(@ \cup {w}, w,
                            "Cannot read properties of undefined (reading 'total')"),
        !.tally = Append(@, [kiosk |-> task.kiosk, completedInc |-> 0,
                             failedInc |-> 0, genCalls |-> 0,
                             reads |-> 0, failedAt |-> "entry",
                             status |-> "threw", error |-> "",
                             bgOk |-> task.bgOk, answer |-> "", writes |-> 0,
                             overlay |-> "", image |-> "", created |-> now,
                             persisted |-> 0, totalInc |-> 0])]

\* the unguarded variant throws at its first counter update exactly when the
\* identifier has no counters
ThrowsAtEntry(S, task) == ~S.guarded /\ task.kiosk \notin DOMAIN S.stats

\* mutant: the background is read without looking the selection up
BeginGenerationNoLookup(S, task) ==
  [Entered(S, task) EXCEPT !.tally = [@ EXCEPT ![S.nextSid].reads = @ + 1]]

\* processGeneration from its call to its first await (or to its rethrow)
BeginGeneration(S, task) ==
  LET sid == S.nextSid
      w == Worker(sid, task.req, task.kiosk, "readFile")
      S1 == Entered(S, task)
  IN IF ThrowsAtEntry(S, task) THEN EnteredThrows(S, task)
     ELSE IF task.bgOk
     THEN [S1 EXCEPT !.tally = [@ EXCEPT ![sid].reads = @ + 1]]
     ELSE CatchFail(S1, w, "Invalid background selection", "lookup")

\* ------------------------------------------------------------- p-queue
\* mutant: every kiosk gets the default priority
PriorityFlat(kiosk) == DefaultPriority

\* priority: kioskId === 'kiosk-3' ? 1 : 0
Priority(kiosk) == IF kiosk = VipKiosk THEN VipPriority ELSE DefaultPriority

\* mutant: the new element goes before the elements of its own priority
EnqueueBeforeEquals(q, el) ==
  LET ahead == Cardinality({i \in 1..Len(q) : q[i].priority > el.priority})
  IN SubSeq(q, 1, ahead) \o <<el>> \o SubSeq(q, ahead + 1, Len(q))

\* mutant: the new element goes to the end whatever its priority
EnqueueAtEnd(q, el) == Append(q, el)

\* PriorityQueue.enqueue: after every element of priority >= the new one
Enqueue(q, el) ==
  LET ahead == Cardinality({i \in 1..Len(q) : q[i].priority >= el.priority})
  IN SubSeq(q, 1, ahead) \o <<el>> \o SubSeq(q, ahead + 1, Len(q))

\* the job p-queue wraps around fn: count it, then call processGeneration
RunJob(S, task) ==
  BeginGeneration(
    [S EXCEPT !.pending = @ + 1,
              !.icount = @ + 1,
              !.dlog = Append(@, [req |-> task.req, priority |-> task.priority,
                                  at |-> now, slot |-> S.icount + 1])],
    task)

\* _isIntervalPaused: with no interval running, either the last interval is
\* over (start a fresh count) or it is still open (arm the resume timeout)
IntervalPaused(S) == S.iid = NoTimer /\ S.iend - now >= 0

AfterPauseCheck(S) ==
  IF S.iid # NoTimer THEN S
  ELSE IF S.iend - now < 0 THEN [S EXCEPT !.icount = 0]
  ELSE IF S.tid = NoTimer THEN [S EXCEPT !.tid = now + (S.iend - now)]
  ELSE S

\* _initializeIntervalIfNeeded
InitializeInterval(S) ==
  IF S.iid # NoTimer THEN S
  ELSE [S EXCEPT !.iid = now + Interval, !.iend = now + Interval]

\* mutant: the interval cap compared with <=
IntervalAllowsOffByOne(S) == S.icount <= IntervalCap

\* _doesIntervalAllowAnother
IntervalAllows(S) == S.icount < IntervalCap

\* mutant: the concurrency ceiling compared with <=
ConcurrencyAllowsOffByOne(S) == S.pending <= Concurrency

\* _doesConcurrentAllowAnother
ConcurrencyAllows(S) == S.pending < Concurrency

\* _tryToStartAnother: <<state after, whether a job was started>>
TryToStartAnother(S) ==
  IF S.queue = <<>>
  THEN <<[S EXCEPT !.iid = NoTimer], FALSE>>
  ELSE LET canInit == ~IntervalPaused(S)
           S1 == AfterPauseCheck(S)
       IN IF IntervalAllows(S1) /\ ConcurrencyAllows(S1)
          THEN LET S2 == RunJob([S1 EXCEPT !.queue = Tail(@)], Head(S1.queue))
               IN <<IF canInit THEN InitializeInterval(S2) ELSE S2, TRUE>>
          ELSE <<S1, FALSE>>

\* _processQueue: while (this._tryToStartAnother()) {}
RECURSIVE ProcessQueue(_)
ProcessQueue(S) ==
  LET r == TryToStartAnother(S)
  IN IF r[2] THEN ProcessQueue(r[1]) ELSE r[1]

\* mutant: the session record is opened when the job is enqueued
QueueAddOpensSession(S, task) ==
  TryToStartAnother(
    [S EXCEPT !.queue = Enqueue(@, task),
              !.sessions = Append(@, [BlankSession(0 - task.req) EXCEPT
                                        !.kioskId = task.kiosk,
                                        !.status = "processing"])])[1]

\* generationQueue.add(fn, {priority})
QueueAdd(S, task) == TryToStartAnother([S EXCEPT !.queue = Enqueue(@, task)])[1]

\* mutant: a settled job keeps its slot
QueueNextKeepsSlot(S) == TryToStartAnother(S)[1]

\* _next, run when a job's promise has settled
QueueNext(S) == TryToStartAnother([S EXCEPT !.pending = @ - 1])[1]

\* mutant: the interval's end resets the count and starts nothing
OnIntervalNoRestart(S) ==
  LET S1 == IF S.icount = 0 /\ S.pending = 0 /\ S.iid # NoTimer
            THEN [S EXCEPT !.iid = NoTimer] ELSE S
  IN [S1 EXCEPT !.icount = 0]

\* _onInterval
OnIntervalBody(S) ==
  LET S1 == IF S.icount = 0 /\ S.pending = 0 /\ S.iid # NoTimer
            THEN [S EXCEPT !.iid = NoTimer] ELSE S
  IN ProcessQueue([S1 EXCEPT !.icount = 0])

\* -------------------------------------------------------------- limiter
\* mutant: the hit that opens a window is not counted
LimiterIncrementSkipsFirst(c) ==
  IF c.resetTime <= now
  THEN [totalHits |-> 0, resetTime |-> now + WindowMs]
  ELSE [c EXCEPT !.totalHits = @ + 1]

\* the store's increment: a window that is over is reset, then the hit counts
LimiterIncrement(c) ==
  LET r == IF c.resetTime <= now
           THEN [totalHits |-> 0, resetTime |-> now + WindowMs] ELSE c
  IN [r EXCEPT !.totalHits = @ + 1]

\* mutant: the maximum itself is already rejected
LimiterRejectsAtMax(c) == c.totalHits >= LimiterMax

\* the middleware: over the maximum means 429
LimiterRejects(c) == c.totalHits > LimiterMax

\* mutant: no keyGenerator, every request counts in one bucket
KeyGeneratorShared(kiosk) == UnknownKiosk

\* keyGenerator: req.headers['x-kiosk-id'] || 'unknown' (a request without
\* the header already carries 'unknown' here)
KeyGenerator(kiosk) == IF kiosk = "" THEN UnknownKiosk ELSE kiosk

\* ---------------------------------------------------------- scheduling
MicrotaskPending == \E w \in workers : w.pc \in {"resolved", "rejected"}

TimerDue ==
  \/ intervalId # NoTimer /\ intervalId <= now
  \/ timeoutId # NoTimer /\ timeoutId <= now
  \/ cleanupTimer <= now

Deadlines == {t \in {intervalId, timeoutId, cleanupTimer} : t # NoTimer}

NextDeadline(limit) ==
  IF \E t \in Deadlines : t < limit
  THEN CHOOSE t \in Deadlines : \A u \in Deadlines : t <= u
  ELSE limit

BookKeeping == <<kioskStats, activeSessions, queue, pendingCount, intervalCount,
                 intervalId, intervalEnd, timeoutId, workers, nextSid,
                 dispatchLog, tally>>

\* a step that is not a monitoring read and involves neither a client's
\* timeout nor the second run
Outside ==
  clientGone' = clientGone /\ lastRead' = <<>> /\ twin' = twin /\ app' = app

\* ------------------------------------------------------------- actions
\* the clock moves on, to the next timer at the latest
Advance(step, max) ==
  /\ ~MicrotaskPending
  /\ ~TimerDue
  /\ ticks < max
  /\ now' = NextDeadline(now + step)
  /\ ticks' = ticks + 1
  /\ UNCHANGED <<reqLeft, requests, limiter, cleanupTimer>>
  /\ UNCHANGED BookKeeping
  /\ Outside

\* mutant: one more job may wait before the route refuses
QueueFullOffByOne(q) == Len(q) > QueueCeiling + 1

\* generationQueue.size > 10
QueueFull(q) == Len(q) > QueueCeiling

\* mutant: the required fields are not looked at
RouteIgnoresFields(fieldsOk, q) == IF QueueFull(q) THEN 503 ELSE 0

\* mutant: the queue's depth is not looked at
RouteUnbounded(fieldsOk, q) == IF ~fieldsOk THEN 400 ELSE 0

\* what the route does with a request the limiter let through
Route(fieldsOk, q) ==
  IF ~fieldsOk THEN 400 ELSE IF QueueFull(q) THEN 503 ELSE 0

\* mutant: the limiter sits behind the handler's checks and counts only the
\* requests that go on to the queue
AccountedIfQueued(skipped, fieldsOk, q) == ~skipped /\ Route(fieldsOk, q) = 0

\* app.post('/api/generate', kioskLimiter, upload.single('selfie'), handler):
\* the limiter runs first and counts every request it does not skip,
\* whatever the handler is going to answer
Accounted(skipped, fieldsOk, q) == ~skipped

\* POST /api/generate: kioskLimiter (which a skipped request passes
\* uncounted), then (once multer has parsed the upload, which touches none of
\* this state) the handler: required fields, queue depth,
\* generationQueue.add; the handler then awaits the job's promise
Handle(skipped, kiosk, bgOk, fieldsOk) ==
  /\ ~MicrotaskPending
  /\ reqLeft > 0
  /\ reqLeft' = reqLeft - 1
  /\ LET key == KeyGenerator(kiosk)
         c == IF Accounted(skipped, fieldsOk, queue)
              THEN LimiterIncrement(limiter[key]) ELSE limiter[key]
         i == Len(requests) + 1
         resp == IF ~skipped /\ LimiterRejects(c) THEN 429 ELSE Route(fieldsOk, queue)
     IN /\ limiter' = [limiter EXCEPT ![key] = c]
        /\ requests' = Append(requests,
             [kiosk |-> kiosk, at |-> now,
              window |-> IF skipped THEN Undefined ELSE c.resetTime, resp |-> resp,
              queueSize |-> IF resp = 503 THEN Len(queue) ELSE Undefined,
              fieldsOk |-> fieldsOk, details |-> "",
              seen |-> Len(dispatchLog),
              freed |-> Cardinality({j \in 1..Len(requests) :
                                       requests[j].resp \in {200, 500}})])
        /\ IF resp = 0
           THEN Apply(QueueAdd(Cur, [priority |-> Priority(kiosk), req |-> i,
                                     kiosk |-> kiosk, bgOk |-> bgOk]))
           ELSE UNCHANGED BookKeeping
  /\ UNCHANGED <<now, ticks, cleanupTimer>>
  /\ clientGone' = clientGone /\ lastRead' = <<>>

\* the route of part_002: its kioskLimiter has no skip option
Request(kiosk, bgOk, fieldsOk) ==
  Handle(FALSE, kiosk, bgOk, fieldsOk) /\ UNCHANGED <<twin, app>>

\* mutant: a request without identifier is skipped as well
SkipWhenMissing(kiosk) == kiosk \in {BypassId, UnknownKiosk}

\* skip: (req) => req.headers['x-kiosk-id'] === 'test-script'
Skip(kiosk) == kiosk = BypassId

\* the route of the S3 variant: the same handler behind a kioskLimiter with
\* the skip option
RequestS3(kiosk, bgOk, fieldsOk) ==
  Handle(Skip(kiosk), kiosk, bgOk, fieldsOk) /\ UNCHANGED <<twin, app>>

\* the limiter of a second run of the server receives a request: its
\* decision is logged unless the request is one of the differing kiosk's
TwinRequest(t, kiosk) ==
  LET key == KeyGenerator(kiosk)
      c == LimiterIncrement(t.limiter[key])
  IN [t EXCEPT
        !.limiter = [@ EXCEPT ![key] = c],
        !.extra = IF kiosk = t.other THEN @ + 1 ELSE @,
        !.decisions = IF kiosk = t.other THEN @
                      ELSE Append(@, [kiosk |-> kiosk, at |-> now,
                                      resp |-> IF LimiterRejects(c) THEN 429 ELSE 0])]

\* a request that both runs receive (here one that lacks a required field)
InBothRuns(kiosk) ==
  /\ kiosk # twin.other
  /\ Handle(FALSE, kiosk, TRUE, FALSE)
  /\ app' = app
  /\ twin' = TwinRequest(twin, kiosk)

\* a request of the differing kiosk that only the first run receives
InFirstRun == Request(twin.other, TRUE, FALSE)

\* a request of the differing kiosk that only the second run receives
InSecondRun ==
  /\ twin.extra < MaxTwinExtra
  /\ app' = app
  /\ twin' = TwinRequest(twin, twin.other)
  /\ clientGone' = clientGone /\ lastRead' = <<>>
  /\ UNCHANGED <<now, ticks, reqLeft, requests, limiter, cleanupTimer>>
  /\ UNCHANGED BookKeeping

IOStep(w) ==
  /\ ~MicrotaskPending
  /\ w \in workers
  /\ UNCHANGED <<now, ticks, reqLeft, requests, limiter, cleanupTimer>>
  /\ Outside

\* the invocation resumes after await fs.readFile: generateContent is called,
\* or the rejection is caught
ReadFileStep(S, w, ok) ==
  IF ok
  THEN [S EXCEPT !.workers = SetWorker(@, w, "generate"),
                 !.tally = [@ EXCEPT ![w.sid].genCalls = @ + 1]]
  ELSE CatchFail(S, w, "ENOENT: no such file or directory", "readFile")

\* fs.readFile of the background settles
ReadFileDone(w, ok) ==
  /\ IOStep(w)
  /\ w.pc = "readFile"
  /\ Apply(ReadFileStep(Cur, w, ok))

\* mutant: any response counts as one with an image
HasImageAlways(outcome) == TRUE

\* the parts loop: some part of the response has inlineData.data
HasImage(outcome) == outcome = "image"

\* the invocation resumes after await model.generateContent
GenerateStep(S0, w, outcome) ==
  LET S == [S0 EXCEPT !.tally = [@ EXCEPT ![w.sid].answer = outcome]]
  IN IF outcome = "throw"
     THEN CatchFail(S, w, "[GoogleGenerativeAI Error]", "generate")
     ELSE IF HasImage(outcome)
     THEN [S EXCEPT !.workers = SetWorker(@, w, "overlay")]
     ELSE CatchFail(S, w, "No image generated", "response")

\* model.generateContent settles: an image, a response without one, or a throw
GenerateDone(w, outcome) ==
  /\ IOStep(w)
  /\ w.pc = "generate"
  /\ Apply(GenerateStep(Cur, w, outcome))

\* mutant: a failure inside applyOverlay escapes it
ApplyOverlayThrows(outcome) ==
  IF outcome = "composited" THEN "composite" ELSE "throw"

\* applyOverlay: the composite, or the image it was given when the overlay
\* asset is missing (inner catch) or anything else fails (outer catch)
ApplyOverlay(outcome) ==
  IF outcome = "composited" THEN "composite" ELSE "original"

\* the invocation resumes after await applyOverlay(buffer), inside the try
\* block: fs.writeFile of the buffer it returned is started
OverlayStep(S0, w, outcome) ==
  LET S == [S0 EXCEPT !.tally = [@ EXCEPT ![w.sid].overlay = outcome]]
      buffer == ApplyOverlay(outcome)
  IN IF buffer = "throw"
     THEN CatchFail(S, w, "Error applying overlay", "overlay")
     ELSE [S EXCEPT !.workers = SetWorker(@, w, "writeFile"),
                    !.tally = [@ EXCEPT ![w.sid].writes = @ + 1,
                                        ![w.sid].image = buffer]]

\* await applyOverlay(buffer) settles
OverlayDone(w, outcome) ==
  /\ IOStep(w)
  /\ w.pc = "overlay"
  /\ Apply(OverlayStep(Cur, w, outcome))

\* fs.writeFile resolved: the output file holds the image bytes
Persist(S, w) == [S EXCEPT !.tally = [@ EXCEPT ![w.sid].persisted = 1]]

\* mutant: the write is not awaited, the success path runs whatever becomes
\* of it
WriteFileDoneUnawaited(w, ok) ==
  /\ IOStep(w)
  /\ w.pc = "writeFile"
  /\ Apply(FinishOk(IF ok THEN Persist(Cur, w) ELSE Cur, w))

\* the invocation resumes after await fs.writeFile
WriteFileStep(S, w, ok) ==
  IF ok
  THEN FinishOk(Persist(S, w), w)
  ELSE CatchFail(S, w, "ENOSPC: no space left on device", "writeFile")

\* fs.writeFile of the output settles
WriteFileDone(w, ok) ==
  /\ IOStep(w)
  /\ w.pc = "writeFile"
  /\ Apply(WriteFileStep(Cur, w, ok))

\* microtask: the job's promise settled; the request is answered (res.json of
\* the result, or 500 with details: error.message), _next runs
Settle ==
  /\ MicrotaskPending
  /\ LET w == CHOOSE x \in workers :
                /\ x.pc \in {"resolved", "rejected"}
                /\ \A y \in workers : y.pc \in {"resolved", "rejected"} => x.sid <= y.sid
     IN /\ requests' = [requests EXCEPT
                          ![w.req].resp = IF w.pc = "resolved" THEN 200 ELSE 500,
                          ![w.req].details = w.err]
        /\ Apply(QueueNext([Cur EXCEPT !.workers = @ \ {w}]))
  /\ UNCHANGED <<now, ticks, reqLeft, limiter, cleanupTimer>>
  /\ Outside

\* setInterval callback of the queue
OnInterval ==
  /\ ~MicrotaskPending
  /\ intervalId # NoTimer /\ intervalId <= now
  /\ Apply(OnIntervalBody([Cur EXCEPT !.iid = @ + Interval]))
  /\ UNCHANGED <<now, ticks, reqLeft, requests, limiter, cleanupTimer>>
  /\ Outside

\* setTimeout callback of the queue: _onResumeInterval
OnResumeInterval ==
  /\ ~MicrotaskPending
  /\ timeoutId # NoTimer /\ timeoutId <= now
  /\ Apply([InitializeInterval(OnIntervalBody(Cur)) EXCEPT !.tid = NoTimer])
  /\ UNCHANGED <<now, ticks, reqLeft, requests, limiter, cleanupTimer>>
  /\ Outside

\* mutant: a session started exactly one retention ago is deleted as well
SweptInclusive(sessions) ==
  SelectSeq(sessions, LAMBDA s : ~(s.startTime # Undefined /\ s.startTime <= now - Retention))

\* session cleanup: delete every session older than the retention
Swept(sessions) ==
  SelectSeq(sessions, LAMBDA s : ~(s.startTime # Undefined /\ s.startTime < now - Retention))

Sweep ==
  /\ ~MicrotaskPending
  /\ cleanupTimer <= now
  /\ cleanupTimer' = cleanupTimer + SweepPeriod
  /\ activeSessions' = Swept(activeSessions)
  /\ UNCHANGED <<now, ticks, reqLeft, kioskStats, queue, pendingCount,
                 intervalCount, intervalId, intervalEnd, timeoutId, workers,
                 nextSid, requests, limiter, dispatchLog, tally>>
  /\ Outside

\* timeout: kioskInfo?.timeout || 120000, with 180000 set for kiosk-3 only
ClientTimeout(kiosk) == IF kiosk = VipKiosk THEN VipTimeout ELSE DefaultTimeout

\* mutant: the server drops the job of a client that went away
OnClientGoneAborts(S, i) ==
  [S EXCEPT !.workers = {w \in @ : w.req # i},
            !.queue = SelectSeq(@, LAMBDA el : el.req # i)]

\* what the server does when the client of request i goes away: the route
\* registers no 'close' / 'aborted' listener and passes no abort signal on,
\* so nothing
OnClientGone(S, i) == S

\* the axios timeout of request i fires: the client stops waiting
ClientGivesUp(i) ==
  /\ ~MicrotaskPending
  /\ i \in 1..Len(requests)
  /\ i \notin clientGone
  /\ requests[i].resp = 0
  /\ now - requests[i].at >= ClientTimeout(requests[i].kiosk)
  /\ clientGone' = clientGone \cup {i}
  /\ Apply(OnClientGone(Cur, i))
  /\ lastRead' = <<>> /\ twin' = twin /\ app' = app
  /\ UNCHANGED <<now, ticks, reqLeft, requests, limiter, cleanupTimer>>

\* one element of recentSessions: the record with its identifier cut to the
\* first eight characters (session identifiers here are shorter than that)
\* and its duration; endTime - undefined is NaN, which JSON writes as null
SessionView(r) ==
  [id |-> r.id, kioskId |-> r.kioskId, startTime |-> r.startTime,
   status |-> r.status, endTime |-> r.endTime, error |-> r.error,
   outputFile |-> r.outputFile,
   duration |-> IF r.endTime # Undefined /\ r.endTime # 0 /\ r.startTime # Undefined
                THEN r.endTime - r.startTime ELSE Undefined]

\* mutant: the first entries are taken, slice(0, 20)
RecentSessionsOldest(sessions) ==
  LET n == IF Len(sessions) < RecentLimit THEN Len(sessions) ELSE RecentLimit
  IN [i \in 1..n |-> SessionView(sessions[i])]

\* Array.from(activeSessions.entries()).slice(-20).map(...)
RecentSessions(sessions) ==
  LET n == IF Len(sessions) < RecentLimit THEN Len(sessions) ELSE RecentLimit
  IN [i \in 1..n |-> SessionView(sessions[Len(sessions) - n + i])]

\* a monitoring route: it sends its response and assigns nothing
ReadOnly(response) ==
  /\ ~MicrotaskPending
  /\ lastRead' = <<response>>
  /\ clientGone' = clientGone /\ twin' = twin /\ app' = app
  /\ UNCHANGED <<now, ticks, reqLeft, requests, limiter, cleanupTimer>>
  /\ UNCHANGED BookKeeping

\* GET /api/monitor
Monitor ==
  ReadOnly([route |-> "monitor", status |-> 200, kiosks |-> kioskStats,
            queueSize |-> Len(queue), queuePending |-> pendingCount,
            totalSessions |-> Len(activeSessions),
            recentSessions |-> RecentSessions(activeSessions),
            timestamp |-> now])

\* GET /api/kiosk/:kioskId/status
KioskStatus(kioskId) ==
  ReadOnly(IF kioskId \in DOMAIN kioskStats
           THEN [route |-> "status", status |-> 200, kioskId |-> kioskId,
                 stats |-> kioskStats[kioskId], queuePosition |-> Len(queue)]
           ELSE [route |-> "status", status |-> 404, kioskId |-> kioskId])

\* GET /api/health
Health ==
  ReadOnly([route |-> "health", status |-> 200, size |-> Len(queue),
            pending |-> pendingCount, timestamp |-> now])

\* ------------------------------------------------------------ kiosk UI
\* src/frontend/src/App.js holds two App components: the current one
\* (lines 1-402) and the earlier one kept after it (lines 403-727)
Variants == {"current", "backup"}
InactivityMs == 90000
BackupInactivityMs == 60000
ResultDelay == 500
MaxGenerates == 2
MaxKioskClock == 240000
KioskStride == 30000

StartStep == 1
ReviewStep(v) == IF v = "current" THEN 5 ELSE 4
ResultStep(v) == IF v = "current" THEN 6 ELSE 5
InactivityTimeout(v) == IF v = "current" THEN InactivityMs ELSE BackupInactivityMs

NoError == ""           \* error === null
BusyText == "The system is busy. Please wait a moment and try again."
WaitText == "Please wait a moment before trying again."
FallbackText == "Failed to generate image. Please try again."
RefusedText == "Generation failed"
TimeoutText == "timeout of 120000ms exceeded"

\* what axios.post settles with: a 2xx body, an error status, or no response
\* at all (status 0: the network failed, or the timeout passed)
Reply(status, success, message) ==
  [status |-> status, success |-> success, message |-> message]

Outcomes ==
  {Reply(200, TRUE, ""), Reply(200, FALSE, ""),
   Reply(503, FALSE, "Request failed with status code 503"),
   Reply(429, FALSE, "Request failed with status code 429"),
   Reply(500, FALSE, "Request failed with status code 500"),
   Reply(0, FALSE, "Network Error")}

TimedOut == Reply(0, FALSE, TimeoutText)

Succeeded(o) == o.status = 200 /\ o.success

\* the error the try block ends with: the axios error, or the Error thrown
\* for a body without success (which has no .response)
Thrown(o) ==
  IF o.status = 200
  THEN [status |-> 0, message |-> IF o.message # "" THEN o.message
                                  ELSE RefusedText]
  ELSE [status |-> o.status, message |-> o.message]

\* the catch block's setError
Caught(err) ==
  IF err.status = 503 THEN BusyText
  ELSE IF err.status = 429 THEN WaitText
  ELSE IF err.message # "" THEN err.message
  ELSE FallbackText

\* no kiosk UI attached to the run
NoApp == <<>>

\* the first render of a configured kiosk and its effects; cancelled,
\* resetInFlight, successes and lastError are history
Mount(v) ==
  [variant |-> v, clock |-> 0, currentStep |-> StartStep,
   isLoading |-> FALSE, error |-> NoError, generatedImage |-> FALSE,
   timer |-> NoTimer, request |-> <<>>, delayed |-> {}, generates |-> 0,
   cancelled |-> NoTimer, resetInFlight |-> FALSE, successes |-> 0,
   lastError |-> <<>>]

\* resetInactivityTimer without its test of isLoading
ResetInactivityTimerLoading(a, step, loading) ==
  [a EXCEPT !.timer = IF step > 1
                      THEN a.clock + InactivityTimeout(a.variant)
                      ELSE NoTimer]

\* resetInactivityTimer as rendered with currentStep = step and
\* isLoading = loading: clearTimeout, then arm unless at the start or loading
ResetInactivityTimer(a, step, loading) ==
  [a EXCEPT !.timer = IF step > 1 /\ ~loading
                      THEN a.clock + InactivityTimeout(a.variant)
                      ELSE NoTimer]

\* the render that follows a handler: when currentStep or isLoading changed,
\* resetInactivityTimer is a new callback, so the listener effect's cleanup
\* clears the timer and the effect calls the new callback
Commit(a0, a1) ==
  IF <<a1.currentStep, a1.isLoading>> # <<a0.currentStep, a0.isLoading>>
  THEN ResetInactivityTimer(a1, a1.currentStep, a1.isLoading)
  ELSE a1

\* mousedown, touchstart or keypress anywhere in the document
HandleActivity(a) == ResetInactivityTimer(a, a.currentStep, a.isLoading)

\* the step handlers: setCurrentStep(to), then the resetInactivityTimer of
\* the render the handler belongs to
StepHandlers(v) ==
  IF v = "current"
  THEN {<<1, 2>>, <<2, 3>>, <<3, 4>>, <<4, 5>>, <<4, 3>>, <<5, 4>>}
  ELSE {<<1, 2>>, <<2, 3>>, <<3, 4>>, <<4, 3>>}

HandleStep(a, to) ==
  Commit(a, ResetInactivityTimer([a EXCEPT !.currentStep = to],
                                 a.currentStep, a.isLoading))

HandleStartOver(a) ==
  Commit(a, ResetInactivityTimer(
              [a EXCEPT !.currentStep = StartStep, !.generatedImage = FALSE,
                        !.error = NoError],
              a.currentStep, a.isLoading))

\* handleGenerate up to its first await; the request remembers the render
\* its continuation closes over
HandleGenerate(a) ==
  Commit(a, [a EXCEPT !.isLoading = TRUE, !.error = NoError,
                      !.request = [deadline |-> a.clock + DefaultTimeout,
                                   step |-> a.currentStep,
                                   loading |-> a.isLoading],
                      !.generates = @ + 1, !.cancelled = a.timer])

\* the success branch: the current App defers the result by ResultDelay,
\* the earlier App shows it at once
OnSuccess(a) ==
  IF a.variant = "current"
  THEN [a EXCEPT !.delayed = @ \cup {a.clock + ResultDelay},
                 !.successes = @ + 1]
  ELSE [a EXCEPT !.generatedImage = TRUE,
                 !.currentStep = ResultStep(a.variant), !.successes = @ + 1]

\* handleGenerate from the settled axios.post on: try, catch, finally
GenerateSettled(a, o) ==
  LET a1 == IF Succeeded(o) THEN OnSuccess(a)
            ELSE [a EXCEPT !.error = Caught(Thrown(o))]
      a2 == [a1 EXCEPT !.isLoading = FALSE, !.request = <<>>]
      a3 == ResetInactivityTimer(a2, a.request.step, a.request.loading)
      a4 == Commit(a, a3)
  IN  IF Succeeded(o) THEN a4
      ELSE [a4 EXCEPT !.lastError = [step |-> a4.currentStep,
                                     text |-> a4.error]]

\* the callback of setTimeout(..., 500) in the success branch
ShowResult(a, t) ==
  Commit(a, [a EXCEPT !.delayed = @ \ {t}, !.generatedImage = TRUE,
                      !.currentStep = ResultStep(a.variant)])

\* the inactivity timeout's callback
ResetToStart(a) ==
  Commit(a, [a EXCEPT !.timer = NoTimer, !.currentStep = StartStep,
                      !.generatedImage = FALSE, !.error = NoError,
                      !.resetInFlight = @ \/ a.request # <<>>])

\* the timers armed in the UI, and the next one to fire
AppTimers(a) ==
  (IF a.timer # NoTimer THEN {a.timer} ELSE {})
  \cup (IF a.request # <<>> THEN {a.request.deadline} ELSE {})
  \cup a.delayed

AppDue(a) == \E t \in AppTimers(a) : t <= a.clock

Earliest(ts, cap) ==
  IF \E t \in ts : t < cap
  THEN CHOOSE t \in ts : t < cap /\ \A u \in ts : t <= u
  ELSE cap

\* -------------------------------------------------------- specifications
StatsInit ==
  [k \in KnownKiosks |->
     [total |-> 0, completed |-> 0, failed |-> 0, lastActive |-> Undefined]]

LimiterInit == [k \in LimiterKeys |-> [totalHits |-> 0, resetTime |-> 0]]

\* the state after construction; #intervalEnd = 0 is the epoch, long before
\* the process started
Fresh ==
  [stats |-> StatsInit, sessions |-> <<>>, queue |-> <<>>, pending |-> 0,
   icount |-> 0, iid |-> NoTimer, iend |-> -1, tid |-> NoTimer,
   workers |-> {}, nextSid |-> 1, dlog |-> <<>>, tally |-> <<>>,
   guarded |-> TRUE]

StartAll(S, n, reqs, lim, tw, a) ==
  /\ now = 0
  /\ ticks = 0
  /\ reqLeft = n
  /\ kioskStats = S.stats
  /\ activeSessions = S.sessions
  /\ queue = S.queue
  /\ pendingCount = S.pending
  /\ intervalCount = S.icount
  /\ intervalId = S.iid
  /\ intervalEnd = S.iend
  /\ timeoutId = S.tid
  /\ workers = S.workers
  /\ nextSid = S.nextSid
  /\ dispatchLog = S.dlog
  /\ tally = S.tally
  /\ requests = reqs
  /\ limiter = lim
  /\ cleanupTimer = SweepPeriod
  /\ clientGone = {}
  /\ lastRead = <<>>
  /\ twin = tw
  /\ app = a

StartTwin(S, n, reqs, lim, tw) == StartAll(S, n, reqs, lim, tw, NoApp)

\* a second run of the limiter beside the server; no second server
StartPair(S, n, reqs, lim, other) ==
  StartTwin(S, n, reqs, lim,
            [limiter |-> lim, decisions |-> <<>>, other |-> other, extra |-> 0,
             legacy |-> <<>>])

Start(S, n, reqs, lim) == StartPair(S, n, reqs, lim, "")

\* the overlay was composited, its asset is missing, or compositing failed
OverlayOutcomes == {"composited", "missing", "error"}

WorkerSteps ==
  \E w \in workers :
    \/ \E ok \in BOOLEAN : ReadFileDone(w, ok)
    \/ \E o \in {"image", "empty", "throw"} : GenerateDone(w, o)
    \/ \E o \in OverlayOutcomes : OverlayDone(w, o)
    \/ \E ok \in BOOLEAN : WriteFileDone(w, ok)

\* Spec: the whole backend on the housekeeping time scale
RequestKiosks == {"kiosk-1", VipKiosk, UnknownKiosk}

Init == Start(Fresh, MaxRequests, <<>>, LimiterInit)

Next ==
  \/ \E k \in RequestKiosks, bg \in BOOLEAN, f \in BOOLEAN : Request(k, bg, f)
  \/ WorkerSteps
  \/ Settle
  \/ OnInterval
  \/ OnResumeInterval
  \/ Sweep
  \/ Advance(SweepStep, MaxTicks)

Spec == Init /\ [][Next]_vars

\* SpecQueue: the scheduler on the time scale of its interval.  The background
\* assets are unreadable here, so a job with a valid selection ends at its
\* first I/O completion and one with an invalid selection at once: the queue
\* sees only when a job settles.
QueueInputs == {<<"kiosk-1", TRUE>>, <<VipKiosk, TRUE>>, <<"kiosk-1", FALSE>>}

InitQueue == Start(Fresh, MaxBurst, <<>>, LimiterInit)

NextQueue ==
  \/ \E in \in QueueInputs : Request(in[1], in[2], TRUE)
  \/ \E w \in workers : ReadFileDone(w, FALSE)
  \/ Settle
  \/ OnInterval
  \/ OnResumeInterval
  \/ Advance(FineStep, MaxFineTicks)

SpecQueue == InitQueue /\ [][NextQueue]_vars

\* SpecLimiter: the rate limiter on the time scale of its window.  The
\* requests lack a required field, so those the limiter lets through end
\* with 400 and only the limiter's store changes.
LimiterKiosks == {"kiosk-1", UnknownKiosk}

InitLimiter == Start(Fresh, MaxHits, <<>>, LimiterInit)

NextLimiter ==
  \/ \E k \in LimiterKiosks : Request(k, TRUE, FALSE)
  \/ Advance(WindowStep, MaxTicks)

SpecLimiter == InitLimiter /\ [][NextLimiter]_vars

\* SpecCapacity: the scheduler starting from a backlog, the state after these
\* kiosks sent these requests at time 0: the first two jobs run, the others wait
BacklogKiosks ==
  <<"kiosk-2", "kiosk-2", "kiosk-2", "kiosk-2", "kiosk-2",
    "kiosk-4", "kiosk-4", "kiosk-4", "kiosk-4", "kiosk-4",
    "kiosk-1", "kiosk-1", UnknownKiosk>>

RECURSIVE Backlog(_)
Backlog(n) ==
  IF n = 0 THEN Fresh
  ELSE QueueAdd(Backlog(n - 1),
                [priority |-> Priority(BacklogKiosks[n]), req |-> n,
                 kiosk |-> BacklogKiosks[n], bgOk |-> TRUE])

RECURSIVE BacklogLimiter(_)
BacklogLimiter(n) ==
  IF n = 0 THEN LimiterInit
  ELSE LET l == BacklogLimiter(n - 1)
       IN [l EXCEPT ![BacklogKiosks[n]] = LimiterIncrement(@)]

BacklogRequests(n) ==
  [i \in 1..n |-> [kiosk |-> BacklogKiosks[i], at |-> 0, window |-> WindowMs,
                   resp |-> 0, queueSize |-> Undefined, fieldsOk |-> TRUE,
                   details |-> "", seen |-> IF i <= Concurrency THEN i - 1 ELSE Concurrency,
                   freed |-> 0]]

InitCapacity ==
  \E n \in {Len(BacklogKiosks) - 1, Len(BacklogKiosks)} :
    Start(Backlog(n), MaxExtra, BacklogRequests(n), BacklogLimiter(n))

\* a request arms the resume timeout only when it finds the queue empty, which
\* the backlog excludes
NextCapacity ==
  \/ \E in \in QueueInputs : Request(in[1], in[2], TRUE)
  \/ \E w \in workers : ReadFileDone(w, FALSE)
  \/ Settle
  \/ OnInterval
  \/ Advance(FineStep, MaxFineTicks)

SpecCapacity == InitCapacity /\ [][NextCapacity]_vars

\* SpecBudget: the route in front of a full queue, the state after the
\* backlog's requests at time 0: two jobs run and ten or eleven wait.  A
\* further kiosk sends a burst of requests, with or without their required
\* fields, within the time the two running invocations spend on their I/O;
\* the queue's interval timer fires meanwhile.
BudgetKiosks == {VipKiosk}

InitBudget ==
  \E n \in {Len(BacklogKiosks) - 1, Len(BacklogKiosks)} :
    Start(Backlog(n), MaxBudgetHits, BacklogRequests(n), BacklogLimiter(n))

NextBudget ==
  \/ \E k \in BudgetKiosks, f \in BOOLEAN : Request(k, TRUE, f)
  \/ OnInterval
  \/ Advance(FineStep, MaxBudgetTicks)

SpecBudget == InitBudget /\ [][NextBudget]_vars

\* SpecVariants: the server of part_002 (guarded counter updates) and, beside
\* it in twin.legacy, the server of part_000 (unguarded ones), given the same
\* requests, the same outcomes of the same I/O and the same clock.  The
\* first runs as in the other specifications; the second handles its settled
\* promises within the step that settles them.
Legacy(S) == [S EXCEPT !.guarded = FALSE]

SettledIn(S) == {w \in S.workers : w.pc \in {"resolved", "rejected"}}

\* the settled promises of S are handled, oldest first: _next for each
RECURSIVE SettleAll(_)
SettleAll(S) ==
  IF SettledIn(S) = {} THEN S
  ELSE LET w == CHOOSE x \in SettledIn(S) : \A y \in SettledIn(S) : x.sid <= y.sid
       IN SettleAll(QueueNext([S EXCEPT !.workers = @ \ {w}]))

\* the second server's route: limiter (its store counts the same requests),
\* queue depth, generationQueue.add
LegacyHandle(L, limited, task) ==
  IF limited \/ QueueFull(L.queue) THEN L ELSE SettleAll(QueueAdd(L, task))

VariantInputs == {<<"kiosk-1", TRUE>>, <<"kiosk-1", FALSE>>, <<UnknownKiosk, TRUE>>}

\* both servers receive the same well-formed request
BothRequest(kiosk, bgOk) ==
  /\ Handle(FALSE, kiosk, bgOk, TRUE)
  /\ app' = app
  /\ twin' = [twin EXCEPT !.legacy =
        LegacyHandle(@, requests'[Len(requests')].resp = 429,
                     [priority |-> Priority(kiosk), req |-> Len(requests) + 1,
                      kiosk |-> kiosk, bgOk |-> bgOk])]

AwaitingIn(S, i, pc) == {w \in S.workers : w.req = i /\ w.pc = pc}

\* the I/O that the invocation for request i awaits at pc settles, with the
\* same outcome in each server that has such an invocation
BothIO(i, pc, Step(_, _)) ==
  /\ ~MicrotaskPending
  /\ AwaitingIn(Cur, i, pc) \cup AwaitingIn(twin.legacy, i, pc) # {}
  /\ IF AwaitingIn(Cur, i, pc) # {}
     THEN Apply(Step(Cur, CHOOSE w \in AwaitingIn(Cur, i, pc) : TRUE))
     ELSE UNCHANGED BookKeeping
  /\ app' = app
  /\ twin' = [twin EXCEPT !.legacy =
        IF AwaitingIn(@, i, pc) # {}
        THEN SettleAll(Step(@, CHOOSE w \in AwaitingIn(@, i, pc) : TRUE))
        ELSE @]
  /\ UNCHANGED <<now, ticks, reqLeft, requests, limiter, cleanupTimer>>
  /\ clientGone' = clientGone /\ lastRead' = <<>>

BothWorkerSteps ==
  \E i \in 1..Len(requests) :
    \/ BothIO(i, "readFile", LAMBDA S, w : ReadFileStep(S, w, TRUE))
    \/ \E o \in {"image", "throw"} :
         BothIO(i, "generate", LAMBDA S, w : GenerateStep(S, w, o))
    \/ BothIO(i, "overlay", LAMBDA S, w : OverlayStep(S, w, "composited"))
    \/ \E ok \in BOOLEAN :
         BothIO(i, "writeFile", LAMBDA S, w : WriteFileStep(S, w, ok))

IntervalDue(S) == S.iid # NoTimer /\ S.iid <= now

ResumeDue(S) == S.tid # NoTimer /\ S.tid <= now

\* the queue's setInterval callback, in each server where it is due
BothOnInterval ==
  /\ ~MicrotaskPending
  /\ IntervalDue(Cur) \/ IntervalDue(twin.legacy)
  /\ IF IntervalDue(Cur)
     THEN Apply(OnIntervalBody([Cur EXCEPT !.iid = @ + Interval]))
     ELSE UNCHANGED BookKeeping
  /\ app' = app
  /\ twin' = [twin EXCEPT !.legacy =
        IF IntervalDue(@)
        THEN SettleAll(OnIntervalBody([@ EXCEPT !.iid = @ + Interval])) ELSE @]
  /\ UNCHANGED <<now, ticks, reqLeft, requests, limiter, cleanupTimer>>
  /\ clientGone' = clientGone /\ lastRead' = <<>>

\* the queue's setTimeout callback, in each server where it is due
BothOnResume ==
  /\ ~MicrotaskPending
  /\ ResumeDue(Cur) \/ ResumeDue(twin.legacy)
  /\ IF ResumeDue(Cur)
     THEN Apply([InitializeInterval(OnIntervalBody(Cur)) EXCEPT !.tid = NoTimer])
     ELSE UNCHANGED BookKeeping
  /\ app' = app
  /\ twin' = [twin EXCEPT !.legacy =
        IF ResumeDue(@)
        THEN SettleAll([InitializeInterval(OnIntervalBody(@)) EXCEPT !.tid = NoTimer])
        ELSE @]
  /\ UNCHANGED <<now, ticks, reqLeft, requests, limiter, cleanupTimer>>
  /\ clientGone' = clientGone /\ lastRead' = <<>>

BothTimers ==
  {t \in {intervalId, timeoutId, twin.legacy.iid, twin.legacy.tid} : t # NoTimer}

\* the clock moves to the next timer armed in either server
BothElapse ==
  /\ ~MicrotaskPending
  /\ BothTimers # {}
  /\ \A t \in BothTimers : t > now
  /\ ticks < MaxVariantTicks
  /\ now' = CHOOSE t \in BothTimers : \A u \in BothTimers : t <= u
  /\ ticks' = ticks + 1
  /\ UNCHANGED <<reqLeft, requests, limiter, cleanupTimer, twin, app>>
  /\ UNCHANGED BookKeeping
  /\ clientGone' = clientGone /\ lastRead' = <<>>

InitVariants ==
  StartTwin(Fresh, MaxVariantReqs, <<>>, LimiterInit,
            [limiter |-> LimiterInit, decisions |-> <<>>, other |-> "",
             extra |-> 0, legacy |-> Legacy(Fresh)])

NextVariants ==
  \/ \E in \in VariantInputs : BothRequest(in[1], in[2])
  \/ BothWorkerSteps
  \/ Settle
  \/ BothOnInterval
  \/ BothOnResume
  \/ BothElapse

SpecVariants == InitVariants /\ [][NextVariants]_vars

\* ------------------------------------------------- the kiosk UI alone
\* The server is left out: its replies are the Outcomes, each of which the
\* server or the network can produce.  One action per handler with the
\* render and effects that follow it.  The loading overlay (App.js 340-388)
\* covers the wizard while isLoading, so its buttons are pressed only when
\* isLoading is false; document-level activity reaches the listeners always.
Backend == <<now, ticks, reqLeft, kioskStats, activeSessions, queue,
             pendingCount, intervalCount, intervalId, intervalEnd, timeoutId,
             workers, nextSid, requests, limiter, cleanupTimer,
             dispatchLog, tally, clientGone, lastRead, twin>>

Activity ==
  /\ app' = HandleActivity(app)
  /\ UNCHANGED Backend

PressStep ==
  /\ ~app.isLoading
  /\ \E p \in StepHandlers(app.variant) :
       /\ p[1] = app.currentStep
       /\ app' = HandleStep(app, p[2])
  /\ UNCHANGED Backend

PressStartOver ==
  /\ ~app.isLoading
  /\ app.currentStep = ResultStep(app.variant)
  /\ app.generatedImage
  /\ app' = HandleStartOver(app)
  /\ UNCHANGED Backend

\* the button is disabled while isLoading; a request sent so late that its
\* timeout lies beyond the horizon is not explored
PressGenerate ==
  /\ app.currentStep = ReviewStep(app.variant)
  /\ ~app.isLoading
  /\ app.generates < MaxGenerates
  /\ app.clock + DefaultTimeout <= MaxKioskClock
  /\ app' = HandleGenerate(app)
  /\ UNCHANGED Backend

\* axios.post settles before its timeout
ResponseArrives ==
  /\ app.request # <<>>
  /\ app.clock < app.request.deadline
  /\ \E o \in Outcomes : app' = GenerateSettled(app, o)
  /\ UNCHANGED Backend

\* axios.post rejects at its timeout
RequestTimesOut ==
  /\ app.request # <<>>
  /\ app.request.deadline <= app.clock
  /\ app' = GenerateSettled(app, TimedOut)
  /\ UNCHANGED Backend

ResultTimerFires ==
  /\ \E t \in app.delayed : t <= app.clock /\ app' = ShowResult(app, t)
  /\ UNCHANGED Backend

InactivityTimerFires ==
  /\ app.timer # NoTimer
  /\ app.timer <= app.clock
  /\ app' = ResetToStart(app)
  /\ UNCHANGED Backend

\* time passes, up to the next timer and at most one stride
KioskElapse ==
  /\ ~AppDue(app)
  /\ app.clock < MaxKioskClock
  /\ app' = [app EXCEPT !.clock =
               Earliest(AppTimers(app) \cup {app.clock + KioskStride},
                        MaxKioskClock)]
  /\ UNCHANGED Backend

InitKiosk ==
  \E v \in Variants :
    StartAll(Fresh, 0, <<>>, LimiterInit, "", Mount(v))

NextKiosk ==
  \/ Activity
  \/ PressStep
  \/ PressStartOver
  \/ PressGenerate
  \/ ResponseArrives
  \/ RequestTimesOut
  \/ ResultTimerFires
  \/ InactivityTimerFires
  \/ KioskElapse

SpecKiosk == InitKiosk /\ [][NextKiosk]_vars

\* the browser runs a timer's callback once it is due, and time passes
KioskProgress ==
  RequestTimesOut \/ ResultTimerFires \/ InactivityTimerFires \/ KioskElapse

SpecKioskLive == SpecKiosk /\ WF_vars(KioskProgress)


\* SpecAdmission: the route in front of a busy backend, the state after
\* kiosk-2 sent five requests at time 0: its window is full, two of its jobs
\* run and three wait.  Requests come with or without their required fields.
AdmissionBacklog == LimiterMax

AdmissionKiosks == {"kiosk-1", "kiosk-2"}

InitAdmission ==
  Start(Backlog(AdmissionBacklog), MaxExtra, BacklogRequests(AdmissionBacklog),
        BacklogLimiter(AdmissionBacklog))

NextAdmission ==
  \/ \E k \in AdmissionKiosks, f \in BOOLEAN : Request(k, TRUE, f)
  \/ \E w \in workers : ReadFileDone(w, FALSE)
  \/ Settle
  \/ OnInterval
  \/ OnResumeInterval
  \/ Advance(FineStep, MaxFineTicks)

SpecAdmission == InitAdmission /\ [][NextAdmission]_vars

\* SpecSerial: the scheduler with one slot to give.  The generation call of
\* the first request of the backlog never answers, so its invocation keeps
\* one of the two slots for good; in the second initial state another
\* invocation holds the other slot until its I/O fails.  The clients then
\* send requests for an ordinary kiosk and the VIP kiosk.
SerialInputs == {"kiosk-1", VipKiosk}

InitSerial ==
  \E n \in 1..Concurrency :
    Start(Backlog(n), MaxSerial, BacklogRequests(n), BacklogLimiter(n))

SerialSteps == \E w \in workers : w.req > 1 /\ ReadFileDone(w, FALSE)

NextSerial ==
  \/ \E k \in SerialInputs : Request(k, TRUE, TRUE)
  \/ SerialSteps
  \/ Settle
  \/ OnInterval
  \/ OnResumeInterval
  \/ Advance(Interval, MaxSerialTicks)

SpecSerial == InitSerial /\ [][NextSerial]_vars

\* SpecLive: the scheduler with its timers running freely.  Time passes only
\* while a timer of the queue is armed, up to that timer, and while an
\* invocation runs at most MaxLiveTicks times; every worker's I/O settles,
\* every settled promise is handled, every due timer fires.
QueueTimers == {t \in {intervalId, timeoutId} : t # NoTimer}

TimerElapses ==
  /\ ~MicrotaskPending
  /\ ~TimerDue
  /\ QueueTimers # {}
  /\ workers = {} \/ ticks < MaxLiveTicks
  /\ now' = NextDeadline(now + Interval)
  /\ ticks' = IF workers = {} THEN ticks ELSE ticks + 1
  /\ UNCHANGED <<reqLeft, requests, limiter, cleanupTimer>>
  /\ UNCHANGED BookKeeping
  /\ Outside

InitLive == Start(Fresh, MaxLive, <<>>, LimiterInit)

LiveInputs == {<<"kiosk-1", TRUE>>, <<VipKiosk, FALSE>>}

\* a job with a valid selection runs to success (the asset is read, the
\* generation answers with an image, the overlay is composited, the output is
\* written); one with an invalid selection throws at once
LiveSteps ==
  \E w \in workers :
    \/ ReadFileDone(w, TRUE)
    \/ GenerateDone(w, "image")
    \/ OverlayDone(w, "composited")
    \/ WriteFileDone(w, TRUE)

NextLive ==
  \/ \E in \in LiveInputs : Request(in[1], in[2], TRUE)
  \/ LiveSteps
  \/ Settle
  \/ OnInterval
  \/ OnResumeInterval
  \/ TimerElapses

\* what the runtime does by itself: an await settles, a settled promise is
\* handled, a due timer fires, time reaches the next armed timer
Progress ==
  \/ LiveSteps
  \/ Settle
  \/ OnInterval
  \/ OnResumeInterval
  \/ TimerElapses

\* fairness: as long as the runtime has something to do, it does something
SpecLive == InitLive /\ [][NextLive]_vars /\ WF_vars(Progress)

\* SpecBypass: the rate limiter of the S3 variant within one window, for the
\* bypass identifier and for requests without identifier.  As in SpecLimiter
\* the requests lack a required field.
BypassKiosks == {BypassId, UnknownKiosk}

InitBypass == Start(Fresh, MaxBypassHits, <<>>, LimiterInit)

NextBypass ==
  \/ \E k \in BypassKiosks : RequestS3(k, TRUE, FALSE)
  \/ Advance(WindowStep, MaxBypassTicks)

SpecBypass == InitBypass /\ [][NextBypass]_vars

\* SpecIsolation: two runs of the limiter side by side.  Both receive the same
\* requests of the watched kiosk at the same times; the requests of the
\* differing kiosk are sent to each run independently.
Differing == {"kiosk-2", UnknownKiosk}

IsolationKiosks == {"kiosk-1", UnknownKiosk}

InitIsolation ==
  \E j \in Differing : StartPair(Fresh, MaxPairHits, <<>>, LimiterInit, j)

NextIsolation ==
  \/ \E k \in IsolationKiosks : InBothRuns(k)
  \/ InFirstRun
  \/ InSecondRun
  \/ Advance(WindowStep, MaxPairTicks)

SpecIsolation == InitIsolation /\ [][NextIsolation]_vars

\* SpecMonitor: a day at the booths with the operators watching.  Visitors
\* come one at a time, each when the previous one has been served and the
\* queue has gone idle; the twenty-first and the one after it may also arrive
\* while earlier ones are still being served.  They come at the kiosks in
\* turn (every fifth request carries no identifier); those at kiosk-1 and
\* kiosk-3 and the late ones pick a background that exists, the others one
\* that does not, and the output of every fourth session cannot be written.
\* Time passes to the next timer of the queue, and to the sweeps once the
\* last visitor has been served.  The monitoring routes are read at any
\* moment.
VisitorKiosks == <<"kiosk-1", "kiosk-2", VipKiosk, "kiosk-4", UnknownKiosk>>

VisitorKiosk(i) == VisitorKiosks[(i % Len(VisitorKiosks)) + 1]

VisitorPicksWell(i) == i % 5 \in {0, 2} \/ i > 20

Visitor ==
  /\ ((workers = {} /\ queue = <<>> /\ QueueTimers = {})
      \/ (Len(requests) \in {20, 21})) /\ ~TimerDue
  /\ Request(VisitorKiosk(Len(requests) + 1), VisitorPicksWell(Len(requests) + 1), TRUE)

MonitorSteps ==
  \E w \in workers :
    \/ ReadFileDone(w, TRUE)
    \/ GenerateDone(w, "image")
    \/ OverlayDone(w, "composited")
    \/ WriteFileDone(w, w.sid % 4 # 0)

StatusKiosks == {"kiosk-1", VipKiosk, UnknownKiosk}

Reads ==
  \/ Monitor
  \/ \E k \in StatusKiosks : KioskStatus(k)
  \/ Health

InitMonitor == Start(Fresh, MaxVisitors, <<>>, LimiterInit)

NextMonitor ==
  \/ Visitor
  \/ MonitorSteps
  \/ Settle
  \/ OnInterval
  \/ OnResumeInterval
  \/ TimerElapses
  \/ Sweep
  \/ reqLeft = 0 /\ workers = {} /\ Advance(SweepStep, MaxMonitorTicks)
  \/ Reads

SpecMonitor == InitMonitor /\ [][NextMonitor]_vars

\* SpecTimeout: the backend on the time scale of the clients' timeouts.
\* Every request is well-formed; an invocation may take any time over its
\* I/O, succeed or fail at any of it.
TimeoutKiosks == {"kiosk-1", VipKiosk, UnknownKiosk}

InitTimeout == Start(Fresh, MaxWaiting, <<>>, LimiterInit)

TimeoutSteps ==
  \E w \in workers :
    \/ \E ok \in BOOLEAN : ReadFileDone(w, ok)
    \/ \E o \in {"image", "throw"} : GenerateDone(w, o)
    \/ OverlayDone(w, "composited")
    \/ \E ok \in BOOLEAN : WriteFileDone(w, ok)

NextTimeout ==
  \/ \E k \in TimeoutKiosks : Request(k, TRUE, TRUE)
  \/ TimeoutSteps
  \/ Settle
  \/ OnInterval
  \/ OnResumeInterval
  \/ \E i \in 1..Len(requests) : ClientGivesUp(i)
  \/ Advance(TimeoutStep, MaxTimeoutTicks)

SpecTimeout == InitTimeout /\ [][NextTimeout]_vars

\* ================================================================ claims
Settled == {"resolved", "rejected"}

\* invocations of processGeneration for k that have not recorded an outcome
Running(k) == {w \in workers : w.kiosk = k /\ w.pc \notin Settled}

\* ledger records of k in status 'processing'
Processing(k) ==
  {i \in 1..Len(activeSessions) :
     activeSessions[i].kioskId = k /\ activeSessions[i].status = "processing"}

\* C1 as stated: for every kiosk, total = completed + failed + the number of
\* its ledger records in 'processing'.  The sweep breaks it when it removes a
\* session that is still processing.
C1_LedgerBalance ==
  \A k \in KnownKiosks :
    kioskStats[k].total =
      kioskStats[k].completed + kioskStats[k].failed + Cardinality(Processing(k))

\* C1 amended: for every kiosk, total = completed + failed + the number of its
\* invocations still running; the 'processing' records of the ledger are never
\* more than those, and are exactly those while each of them still has its
\* record (the sweep removed none).
C1_RunningBalance ==
  \A k \in KnownKiosks :
    /\ kioskStats[k].total =
         kioskStats[k].completed + kioskStats[k].failed + Cardinality(Running(k))
    /\ Cardinality(Processing(k)) <= Cardinality(Running(k))
    /\ (\A w \in Running(k) : HasSession(activeSessions, w.sid))
         => Cardinality(Processing(k)) = Cardinality(Running(k))

\* C1 witness: a worker of a provisioned kiosk still runs after the sweep
\* removed its session
C1_Witness ==
  \E w \in workers :
    /\ w.kiosk \in KnownKiosks
    /\ w.pc \notin Settled
    /\ ~HasSession(activeSessions, w.sid)

\* C2: the number of running jobs never exceeds the concurrency ceiling, as
\* the queue counts them (pending) and as invocations in flight
C2_ConcurrencyCeiling ==
  /\ pendingCount <= Concurrency
  /\ Cardinality(workers) <= Concurrency

\* C2 witness: the ceiling is reached and a job waits for a slot
C2_Witness ==
  /\ Cardinality(workers) = Concurrency
  /\ queue # <<>>
  /\ intervalCount < IntervalCap

\* C3: whenever a job is dispatched, every job that stays queued has a lower
\* priority, or the same priority and a later enqueue
C3_PriorityFifo ==
  [][\A i \in (Len(dispatchLog) + 1)..Len(dispatchLog') :
       \A j \in 1..Len(queue') :
         \/ dispatchLog'[i].priority > queue'[j].priority
         \/ /\ dispatchLog'[i].priority = queue'[j].priority
            /\ dispatchLog'[i].req < queue'[j].req]_vars

\* C3 witness: a VIP job was dispatched before an ordinary job enqueued earlier,
\* and two ordinary jobs that waited were dispatched in their enqueue order
C3_Witness ==
  /\ \E i, j \in 1..Len(dispatchLog) :
       /\ i < j
       /\ dispatchLog[i].priority > dispatchLog[j].priority
       /\ dispatchLog[i].req > dispatchLog[j].req
  /\ \E i, j \in 1..Len(dispatchLog) :
       /\ i < j
       /\ i > Concurrency
       /\ dispatchLog[i].priority = dispatchLog[j].priority
       /\ dispatchLog[i].req < dispatchLog[j].req

\* dispatches in the window of length Interval that ends at dispatch i
InTrailingWindow(i) ==
  {j \in 1..Len(dispatchLog) :
     /\ dispatchLog[j].at <= dispatchLog[i].at
     /\ dispatchLog[j].at > dispatchLog[i].at - Interval}

\* C4 as stated: no trailing window of length Interval holds more than
\* IntervalCap dispatches.  The queue counts per fixed interval, so the
\* dispatches of two adjacent intervals can fall within one trailing window.
C4_TrailingWindow ==
  \A i \in 1..Len(dispatchLog) : Cardinality(InTrailingWindow(i)) <= IntervalCap

\* C4 amended: every dispatch is the first, second or third of its interval
\* (the span between two resets of the queue's interval counter), whatever the
\* concurrency ceiling leaves free
C4_PerInterval ==
  /\ intervalCount <= IntervalCap
  /\ \A i \in 1..Len(dispatchLog) : dispatchLog[i].slot \in 1..IntervalCap
  /\ \A i \in 1..(Len(dispatchLog) - 1) :
       dispatchLog[i + 1].slot \in {1, dispatchLog[i].slot + 1}

\* C4 witness: the interval's budget is spent, a slot is free and a job waits
C4_Witness ==
  /\ intervalCount = IntervalCap
  /\ pendingCount < Concurrency
  /\ queue # <<>>

\* requests of kiosk k, and the position of request i among them
RequestsOf(k) == {i \in 1..Len(requests) : requests[i].kiosk = k}
Rank(i) == Cardinality({j \in RequestsOf(requests[i].kiosk) : j <= i})
First(k) == CHOOSE i \in RequestsOf(k) : \A j \in RequestsOf(k) : i <= j
Admitted(i) == requests[i].resp # 429
SinceFirst(i) == requests[i].at - requests[First(requests[i].kiosk)].at

\* C5: of the requests a kiosk sends within WindowMs of its first one, the
\* first LimiterMax are let through and the next one is rejected with 429;
\* the first request it sends once WindowMs has passed is let through again
C5_WindowLimit ==
  \A i \in 1..Len(requests) :
    /\ (SinceFirst(i) < WindowMs /\ Rank(i) <= LimiterMax) => Admitted(i)
    /\ (SinceFirst(i) < WindowMs /\ Rank(i) = LimiterMax + 1) => ~Admitted(i)
    /\ (/\ SinceFirst(i) >= WindowMs
        /\ \A j \in RequestsOf(requests[i].kiosk) : j < i => SinceFirst(j) < WindowMs)
         => Admitted(i)

\* C5 witness: a kiosk sent LimiterMax + 1 requests within the window, only
\* the last of them was rejected, and its next request, sent after the window,
\* was let through
C5_Witness ==
  \E k \in LimiterKeys :
    /\ Cardinality(RequestsOf(k)) = LimiterMax + 2
    /\ \A i \in RequestsOf(k) :
         /\ Rank(i) <= LimiterMax + 1 => SinceFirst(i) < WindowMs
         /\ Rank(i) = LimiterMax + 2 => SinceFirst(i) >= WindowMs
         /\ Admitted(i) <=> Rank(i) # LimiterMax + 1

\* requests of the same kiosk let through in the window of length WindowMs
\* that ends at request i
AdmittedInTrailingWindow(i) ==
  {j \in RequestsOf(requests[i].kiosk) :
     /\ Admitted(j)
     /\ requests[j].at <= requests[i].at
     /\ requests[j].at > requests[i].at - WindowMs}

\* requests of the same kiosk let through in the limiter window request i
\* was counted in
AdmittedInSameWindow(i) ==
  {j \in RequestsOf(requests[i].kiosk) :
     Admitted(j) /\ requests[j].window = requests[i].window}

\* C6 as stated: a kiosk gets at most LimiterMax requests through in any
\* trailing window of length WindowMs.  The limiter counts per fixed window,
\* so the requests of two adjacent windows can fall within one trailing window.
C6_TrailingWindow ==
  \A i \in 1..Len(requests) : Cardinality(AdmittedInTrailingWindow(i)) <= LimiterMax

\* C6 amended: a kiosk gets at most LimiterMax requests through in any one
\* window of the limiter (WindowMs from the request that opens it); the check
\* and the count are one step, so the store holds every hit of the window
C6_PerWindow ==
  /\ \A i \in 1..Len(requests) : Cardinality(AdmittedInSameWindow(i)) <= LimiterMax
  /\ \A k \in LimiterKeys :
       limiter[k].totalHits =
         Cardinality({j \in RequestsOf(k) : requests[j].window = limiter[k].resetTime})

\* C6 witness: a window of a kiosk is full, a request was rejected in it, and
\* a request of the next window was let through less than WindowMs after one
\* of the full window
C6_Witness ==
  \E i, j, r \in 1..Len(requests) :
    /\ requests[i].kiosk = requests[j].kiosk
    /\ requests[r].kiosk = requests[i].kiosk
    /\ Cardinality(AdmittedInSameWindow(i)) = LimiterMax
    /\ requests[r].window = requests[i].window /\ ~Admitted(r)
    /\ Admitted(j) /\ requests[j].window > requests[i].window
    /\ requests[j].at - requests[i].at < WindowMs

\* sessions whose worker has recorded its outcome
Finished == {sid \in 1..Len(tally) : tally[sid].status # "processing"}

\* C7 as stated: every invocation that has ended incremented exactly one of
\* completed / failed.  An invocation for an identifier without counters
\* ('unknown') increments neither.
C7_ExactlyOne ==
  \A sid \in 1..Len(tally) :
    /\ tally[sid].completedInc + tally[sid].failedInc <= 1
    /\ sid \in Finished => tally[sid].completedInc + tally[sid].failedInc = 1

\* C7 amended: every invocation for a provisioned kiosk that has ended
\* incremented exactly one of completed / failed of that kiosk, once: failed
\* on each failing exit, completed on success; one still running has
\* incremented neither, and one for an identifier without counters never does
C7_ExactlyOneProvisioned ==
  \A sid \in 1..Len(tally) :
    LET t == tally[sid]
    IN /\ t.completedInc >= 0 /\ t.failedInc >= 0
       /\ t.completedInc + t.failedInc <= 1
       /\ sid \notin Finished => t.completedInc + t.failedInc = 0
       /\ (sid \in Finished /\ t.kiosk \in KnownKiosks) =>
            /\ t.completedInc = (IF t.status = "completed" THEN 1 ELSE 0)
            /\ t.failedInc = (IF t.status = "failed" THEN 1 ELSE 0)
       /\ t.kiosk \notin KnownKiosks => t.completedInc + t.failedInc = 0
       /\ t.status = "failed" <=> t.failedAt # ""

\* C7 witness: two invocations of a provisioned kiosk ended, one by a failed
\* output write and one by success, each with its one increment
C7_Witness ==
  \E a, b \in Finished :
    /\ tally[a].kiosk \in KnownKiosks /\ tally[b].kiosk = tally[a].kiosk
    /\ tally[a].failedAt = "writeFile" /\ tally[a].failedInc = 1
    /\ tally[b].status = "completed" /\ tally[b].completedInc = 1
    /\ kioskStats[tally[a].kiosk].failed = 1
    /\ kioskStats[tally[a].kiosk].completed = 1

\* invocations that failed because the generation call threw
FailedUpstream == {sid \in 1..Len(tally) : tally[sid].failedAt = "generate"}

\* the ledger's record of session sid, where it has one
Recorded(sid, Test(_)) ==
  \A i \in 1..Len(activeSessions) : activeSessions[i].id = sid => Test(activeSessions[i])

\* C8 as stated: an invocation that failed at the generation call left one
\* failed increment and no completed increment, and its session is 'failed'
\* with an error text.  For an identifier without counters there is no
\* increment.
C8_UpstreamFailure ==
  \A sid \in FailedUpstream :
    /\ tally[sid].failedInc = 1 /\ tally[sid].completedInc = 0
    /\ tally[sid].status = "failed" /\ tally[sid].error # ""
    /\ Recorded(sid, LAMBDA r : r.status = "failed" /\ r.error # "")

\* C8 amended: an invocation for a provisioned kiosk that failed at the
\* generation call left one failed increment and no completed increment; for
\* any identifier its session ended 'failed' with an error text, and so reads
\* its ledger record
C8_UpstreamFailureProvisioned ==
  \A sid \in FailedUpstream :
    /\ tally[sid].kiosk \in KnownKiosks => tally[sid].failedInc = 1
    /\ tally[sid].completedInc = 0
    /\ tally[sid].status = "failed" /\ tally[sid].error # ""
    /\ Recorded(sid, LAMBDA r : r.status = "failed" /\ r.error # "" /\ r.endTime # Undefined)

\* C8 witness: such an invocation of a provisioned kiosk, its record in the
\* ledger, the kiosk's failed counter at 1 and its completed counter at 0
C8_Witness ==
  \E sid \in FailedUpstream :
    /\ tally[sid].kiosk \in KnownKiosks
    /\ HasSession(activeSessions, sid)
    /\ kioskStats[tally[sid].kiosk].failed = 1
    /\ kioskStats[tally[sid].kiosk].completed = 0
    /\ kioskStats[tally[sid].kiosk].total = 1

\* C9: a ledger record changes only by the step that takes it from
\* 'processing' to 'completed' or 'failed', and that step writes its endTime;
\* a record enters the ledger in 'processing' without endTime, or already
\* terminal with it
C9_StatusMonotonic ==
  [][/\ \A i \in 1..Len(activeSessions) : \A j \in 1..Len(activeSessions') :
          activeSessions[i].id = activeSessions'[j].id =>
            \/ activeSessions'[j] = activeSessions[i]
            \/ /\ activeSessions[i].status = "processing"
               /\ activeSessions[i].endTime = Undefined
               /\ activeSessions'[j].status \in {"completed", "failed"}
               /\ activeSessions'[j].endTime = now
     /\ \A j \in 1..Len(activeSessions') :
          (activeSessions'[j].status = "processing")
            <=> (activeSessions'[j].endTime = Undefined)]_vars

\* C9 witness: a record that became 'completed' some time after it was created
C9_Witness ==
  \E i \in 1..Len(activeSessions) :
    /\ activeSessions[i].status = "completed"
    /\ activeSessions[i].startTime # Undefined
    /\ activeSessions[i].endTime > activeSessions[i].startTime

\* C10: a request that passes the limiter while more than QueueCeiling jobs
\* wait is answered 503 with the queue's size; it changes no counter, no
\* session and no part of the queue, and no invocation starts for it
C10_CapacityRejection ==
  [][Len(requests') = Len(requests) + 1 =>
       LET r == requests'[Len(requests')]
       IN /\ (Len(queue) > QueueCeiling /\ r.resp # 429) =>
               /\ r.resp = 503
               /\ r.queueSize = Len(queue)
          /\ r.resp = 503 =>
               /\ Len(queue) > QueueCeiling
               /\ UNCHANGED <<kioskStats, activeSessions, queue, pendingCount,
                              intervalCount, workers, nextSid, dispatchLog, tally>>]_vars

\* C10 witness: eleven jobs wait and a request was answered 503
C10_Witness ==
  /\ Len(queue) = QueueCeiling + 1
  /\ \E i \in 1..Len(requests) : requests[i].resp = 503 /\ requests[i].queueSize = QueueCeiling + 1

\* C11: a request answered 429 (its kiosk's window is full) or 400 (a required
\* field is missing) changes no session, no counter or lastActive of any
\* kiosk, no queue entry and starts no invocation; a request over the
\* limiter's maximum gets 429, and one let through without its fields gets 400
C11_AdmissionRejection ==
  [][Len(requests') = Len(requests) + 1 =>
       LET r == requests'[Len(requests')]
       IN /\ limiter'[r.kiosk].totalHits > LimiterMax => r.resp = 429
          /\ (limiter'[r.kiosk].totalHits <= LimiterMax /\ ~r.fieldsOk) => r.resp = 400
          /\ r.resp \in {429, 400} =>
               UNCHANGED <<kioskStats, activeSessions, queue, pendingCount,
                           workers, nextSid, dispatchLog, tally>>]_vars

\* C11 witness: while jobs run and wait, one request was answered 429 and one
\* 400, and the counters still show only the five submissions of the backlog
C11_Witness ==
  /\ queue # <<>> /\ workers # {}
  /\ \E i, j \in 1..Len(requests) :
       /\ requests[i].resp = 429 /\ requests[i].fieldsOk
       /\ requests[j].resp = 400 /\ ~requests[j].fieldsOk
  /\ kioskStats["kiosk-2"].total + Len(queue) = AdmissionBacklog
  /\ kioskStats["kiosk-1"].total = 0

\* the invocation that ran request i has recorded its outcome
Terminal(i) ==
  \E sid \in 1..Len(dispatchLog) :
    /\ dispatchLog[sid].req = i
    /\ tally[sid].status \in {"completed", "failed"}

\* no accepted job is waiting or running: each was dispatched, its invocation
\* ended completed or failed, and its request was answered
NoneOutstanding ==
  /\ queue = <<>>
  /\ \A i \in 1..Len(requests) :
       requests[i].resp \notin {429, 400, 503} =>
         Terminal(i) /\ requests[i].resp \in {200, 500}

\* C12: every request whose job generationQueue.add accepted is eventually
\* dispatched, its invocation ends completed or failed and the request is
\* answered, provided every await settles and every due timer fires: again
\* and again no accepted job is outstanding
C12_NoTaskDropped == []<>NoneOutstanding

\* C12 witness: a job that had to wait for a later interval was dispatched,
\* ended and was answered
C12_Witness ==
  \E sid \in 1..Len(dispatchLog) :
    LET i == dispatchLog[sid].req
    IN /\ dispatchLog[sid].at > requests[i].at
       /\ Terminal(i)
       /\ requests[i].resp \in {200, 500}

\* requests whose job has settled and been answered
Answered == {i \in 1..Len(requests) : requests[i].resp \in {200, 500}}

\* C13: the queue's in-flight count is the number of jobs dispatched and not
\* yet released, each job is released once, when its promise has settled
\* (resolved or rejected), and the count equals the number of invocations
\* that hold a slot
C13_SlotBalance ==
  /\ pendingCount = Len(dispatchLog) - Cardinality(Answered)
  /\ pendingCount = Cardinality(workers)
  /\ \A i \in Answered : \E sid \in 1..Len(dispatchLog) : dispatchLog[sid].req = i
  /\ \A w \in workers : w.req \notin Answered /\ dispatchLog[w.sid].req = w.req
  /\ ~MicrotaskPending => pendingCount = Cardinality({w \in workers : w.pc \notin Settled})

\* C13 witness: one job returned, one threw, a third runs and holds the only
\* slot in use
C13_Witness ==
  /\ \E i, j \in Answered : requests[i].resp = 200 /\ requests[j].resp = 500
  /\ pendingCount = 1
  /\ \E w \in workers : w.pc \notin Settled

\* C14: the request whose invocation failed is answered 500 with the message
\* of the error the invocation recorded, never 200; until it is answered the
\* invocation's promise is rejected with that error.  A request answered 200
\* had an invocation that completed.
C14_ErrorPropagates ==
  \A sid \in 1..Len(tally) :
    LET i == dispatchLog[sid].req
    IN /\ tally[sid].status = "failed" =>
            /\ tally[sid].error # ""
            /\ requests[i].resp \in {0, 500}
            /\ requests[i].resp = 0 =>
                 \E w \in workers :
                   w.sid = sid /\ w.pc = "rejected" /\ w.err = tally[sid].error
            /\ requests[i].resp = 500 => requests[i].details = tally[sid].error
       /\ requests[i].resp = 200 => tally[sid].status = "completed"
       /\ requests[i].resp = 500 => tally[sid].status = "failed"

\* C14 witness: an invocation failed on an empty response, its session and
\* its kiosk's counter record the failure, and its request was answered 500
\* with that message
C14_Witness ==
  \E sid \in 1..Len(tally) :
    /\ tally[sid].error = "No image generated"
    /\ tally[sid].failedInc = 1
    /\ \E j \in 1..Len(activeSessions) :
         activeSessions[j].id = sid /\ activeSessions[j].error = "No image generated"
    /\ requests[dispatchLog[sid].req].resp = 500
    /\ requests[dispatchLog[sid].req].details = "No image generated"

\* the position of request i in the order of dispatch
Dispatched(i) == \E sid \in 1..Len(dispatchLog) : dispatchLog[sid].req = i
Pos(i) == CHOOSE sid \in 1..Len(dispatchLog) : dispatchLog[sid].req = i

\* the requests for the VIP kiosk and for the ordinary kiosk A
VipTasks == {i \in 1..Len(requests) : requests[i].kiosk = VipKiosk}
ATasks == {i \in 1..Len(requests) : requests[i].kiosk = "kiosk-1"}

\* request a was still waiting (or not yet sent) when request v was enqueued
WaitingAt(a, v) ==
  a > v \/ ~\E sid \in 1..requests[v].seen : dispatchLog[sid].req = a

\* C15 as stated: with one slot to give, three tasks of kiosk A and one VIP
\* task, the VIP task enqueued before the first slot was freed, are dispatched
\* in the order [VIP, A1, A2, A3] whatever the order of submission.  A task
\* submitted while the slot is free is dispatched at once, ahead of the VIP
\* task submitted after it.
C15_VipFirst ==
  (/\ Cardinality(VipTasks) = 1
   /\ Cardinality(ATasks) = 3
   /\ \A v \in VipTasks : requests[v].freed = 0)
  => /\ \A v \in VipTasks, a \in ATasks :
          Dispatched(a) => Dispatched(v) /\ Pos(v) < Pos(a)
     /\ \A a, b \in ATasks :
          (a < b /\ Dispatched(b)) => Dispatched(a) /\ Pos(a) < Pos(b)

\* C15 amended: a VIP task is dispatched ahead of every task of kiosk A that
\* is waiting when it is enqueued or is enqueued after it, and the tasks of
\* kiosk A are dispatched in the order of their submission; so three A tasks
\* and a VIP task that are all enqueued while no slot is free are dispatched
\* in the order [VIP, A1, A2, A3] whatever the order of their submission
C15_VipAhead ==
  /\ \A v \in VipTasks, a \in ATasks :
       (WaitingAt(a, v) /\ Dispatched(a)) => Dispatched(v) /\ Pos(v) < Pos(a)
  /\ \A a, b \in ATasks :
       (a < b /\ Dispatched(b)) => Dispatched(a) /\ Pos(a) < Pos(b)
  /\ (/\ Cardinality(VipTasks) = 1
      /\ Cardinality(ATasks) = 3
      /\ \A i, j \in VipTasks \cup ATasks : requests[i].seen = requests[j].seen
      /\ \A i \in VipTasks \cup ATasks : Dispatched(i))
     => \A v \in VipTasks, a \in ATasks : Pos(a) - Pos(v) = Rank(a)

\* C15 witness: both slots were held, three A tasks and then the VIP task
\* were enqueued, and the four were dispatched VIP first, then A in order
C15_Witness ==
  /\ Cardinality(VipTasks) = 1 /\ Cardinality(ATasks) = 3
  /\ \A v \in VipTasks, a \in ATasks :
       /\ a < v
       /\ requests[v].seen = Concurrency /\ requests[a].seen = Concurrency
       /\ Dispatched(v) /\ Dispatched(a)
       /\ Pos(a) - Pos(v) = Rank(a)

\* the priority the route gives a kiosk identifier
Expected(kiosk) == IF kiosk = "kiosk-3" THEN 1 ELSE 0

\* C16: a job carries priority 1 if its request came from 'kiosk-3' and 0
\* otherwise; whenever a job is dispatched no waiting job has a higher
\* priority, so a waiting VIP job goes ahead of the waiting ordinary ones; an
\* invocation that runs keeps running until it settles, and a job once
\* dispatched is never back in the queue
C16_VipNoPreemption ==
  [][/\ \A j \in 1..Len(queue') :
          queue'[j].priority = Expected(requests'[queue'[j].req].kiosk)
     /\ \A sid \in (Len(dispatchLog) + 1)..Len(dispatchLog') :
          /\ dispatchLog'[sid].priority = Expected(requests'[dispatchLog'[sid].req].kiosk)
          /\ \A j \in 1..Len(queue') : queue'[j].priority <= dispatchLog'[sid].priority
     /\ \A w \in workers :
          w.pc \notin Settled => \E x \in workers' : x.sid = w.sid /\ x.req = w.req
     /\ \A sid \in 1..Len(dispatchLog') : \A j \in 1..Len(queue') :
          queue'[j].req # dispatchLog'[sid].req
     /\ Len(dispatchLog') >= Len(dispatchLog)
     /\ pendingCount' >= Cardinality({w \in workers : w.pc \notin Settled})]_vars

\* C16 witness: a VIP job was dispatched while an ordinary job enqueued before
\* it still waits, and an ordinary invocation dispatched before it still runs
C16_Witness ==
  \E v \in VipTasks :
    /\ Dispatched(v)
    /\ \E j \in 1..Len(queue) : queue[j].req < v /\ queue[j].priority = 0
    /\ \E w \in workers : w.sid < Pos(v) /\ w.pc \notin Settled /\ w.kiosk # VipKiosk

\* invocations whose background identifier is not a key of BACKGROUNDS
BadSelection == {sid \in 1..Len(tally) : ~tally[sid].bgOk}

\* what an invocation with a bad selection leaves apart from its counters: it
\* failed at the lookup with the selection error, before any read or call
FailedAtLookup(sid) ==
  /\ tally[sid].failedAt = "lookup"
  /\ tally[sid].status = "failed"
  /\ tally[sid].error = "Invalid background selection"
  /\ tally[sid].reads = 0 /\ tally[sid].genCalls = 0
  /\ tally[sid].completedInc = 0

\* C17 as stated: an invocation with a bad selection fails at the lookup and
\* its kiosk's failed and total counters grow by exactly 1.  For an identifier
\* without counters nothing grows.
C17_BadSelection ==
  \A sid \in BadSelection :
    FailedAtLookup(sid) /\ tally[sid].failedInc = 1 /\ tally[sid].totalInc = 1

\* C17 amended: an invocation with a bad selection fails at the lookup, before
\* any asset read or generation call; for a provisioned kiosk failed and total
\* grow by exactly 1 and completed not at all, for any other identifier no
\* counter changes.  Only a bad selection fails at the lookup.
C17_BadSelectionProvisioned ==
  /\ \A sid \in BadSelection :
       /\ FailedAtLookup(sid)
       /\ tally[sid].failedInc = (IF tally[sid].kiosk \in KnownKiosks THEN 1 ELSE 0)
       /\ tally[sid].totalInc = (IF tally[sid].kiosk \in KnownKiosks THEN 1 ELSE 0)
  /\ \A sid \in 1..Len(tally) : tally[sid].failedAt = "lookup" => sid \in BadSelection

\* C17 witness: the only invocation of a provisioned kiosk had a bad
\* selection; the kiosk's counters read total 1, failed 1, completed 0 and
\* its request was answered with the selection error
C17_Witness ==
  \E sid \in BadSelection :
    /\ tally[sid].kiosk \in KnownKiosks
    /\ kioskStats[tally[sid].kiosk].total = 1
    /\ kioskStats[tally[sid].kiosk].failed = 1
    /\ kioskStats[tally[sid].kiosk].completed = 0
    /\ requests[dispatchLog[sid].req].resp = 500
    /\ requests[dispatchLog[sid].req].details = "Invalid background selection"

\* invocations whose generation call answered without an image
EmptyAnswer == {sid \in 1..Len(tally) : tally[sid].answer = "empty"}

\* what an empty answer leaves apart from the counters: the invocation failed
\* with 'No image generated', wrote no output, its session (while in the
\* ledger) is 'failed' without an output file, its request is not answered 200
FailedOnEmpty(sid) ==
  /\ tally[sid].failedAt = "response"
  /\ tally[sid].status = "failed"
  /\ tally[sid].error = "No image generated"
  /\ tally[sid].writes = 0
  /\ tally[sid].completedInc = 0
  /\ Recorded(sid, LAMBDA r : r.status = "failed" /\ r.error = "No image generated"
                                /\ r.outputFile = 0)
  /\ requests[dispatchLog[sid].req].resp \in {0, 500}

\* C18 as stated: an empty answer is a failure and failed is incremented.  For
\* an identifier without counters failed is not incremented.
C18_EmptyAnswer ==
  \A sid \in EmptyAnswer : FailedOnEmpty(sid) /\ tally[sid].failedInc = 1

\* C18 amended: an empty answer is a failure ('No image generated'): the
\* session ends 'failed', nothing is written, the caller gets no success
\* result, and failed is incremented once if the kiosk is provisioned and no
\* counter changes otherwise
C18_EmptyAnswerProvisioned ==
  \A sid \in EmptyAnswer :
    /\ FailedOnEmpty(sid)
    /\ tally[sid].failedInc = (IF tally[sid].kiosk \in KnownKiosks THEN 1 ELSE 0)

\* C18 witness: the only invocation of a provisioned kiosk got an empty
\* answer; the kiosk's failed counter reads 1, its session is 'failed' and
\* its request was answered 500
C18_Witness ==
  \E sid \in EmptyAnswer :
    /\ tally[sid].kiosk \in KnownKiosks
    /\ kioskStats[tally[sid].kiosk].failed = 1
    /\ kioskStats[tally[sid].kiosk].completed = 0
    /\ HasSession(activeSessions, sid)
    /\ requests[dispatchLog[sid].req].resp = 500
    /\ requests[dispatchLog[sid].req].details = "No image generated"

\* invocations whose overlay could not be applied
OverlayFailed == {sid \in 1..Len(tally) : tally[sid].overlay \in {"missing", "error"}}

\* C19 as stated: when the overlay is missing or compositing fails the
\* invocation ends 'completed' and completed grows by 1, failed by 0.  The
\* output write can still fail, and an identifier without counters has no
\* completed counter to grow.
C19_OverlayFallback ==
  \A sid \in OverlayFailed \cap Finished :
    /\ tally[sid].status = "completed"
    /\ tally[sid].completedInc = 1
    /\ tally[sid].failedInc = 0

\* C19 amended: when the overlay is missing or compositing fails the
\* invocation goes on to write the unmodified generated image and never fails
\* because of the overlay; if that write succeeds the session ends
\* 'completed', the caller gets a success result, and completed grows by 1
\* (failed by 0) if the kiosk is provisioned, no counter changing otherwise
C19_OverlayFallbackProvisioned ==
  \A sid \in OverlayFailed :
    /\ tally[sid].image = "original"
    /\ tally[sid].writes = 1
    /\ tally[sid].failedAt \in {"", "writeFile"}
    /\ (sid \in Finished /\ tally[sid].failedAt = "") =>
         /\ tally[sid].status = "completed"
         /\ tally[sid].completedInc = (IF tally[sid].kiosk \in KnownKiosks THEN 1 ELSE 0)
         /\ tally[sid].failedInc = 0
         /\ Recorded(sid, LAMBDA r : r.status = "completed" /\ r.outputFile = sid)
         /\ requests[dispatchLog[sid].req].resp \in {0, 200}

\* C19 witness: the overlay asset was missing for the only invocation of a
\* provisioned kiosk; its session is 'completed', completed reads 1, failed 0,
\* and its request was answered 200
C19_Witness ==
  \E sid \in OverlayFailed :
    /\ tally[sid].overlay = "missing"
    /\ tally[sid].kiosk \in KnownKiosks
    /\ kioskStats[tally[sid].kiosk].completed = 1
    /\ kioskStats[tally[sid].kiosk].failed = 0
    /\ \E j \in 1..Len(activeSessions) :
         activeSessions[j].id = sid /\ activeSessions[j].status = "completed"
    /\ requests[dispatchLog[sid].req].resp = 200

\* C20: after a run of the session sweep the ledger holds no record of a
\* session created two retention periods before it, whatever its status.  A
\* session whose invocation ends after its record was swept gets a new record
\* without startTime, which no later sweep removes.
C20_SweepRemovesOld ==
  [][cleanupTimer' # cleanupTimer =>
       \A sid \in 1..Len(tally) :
         tally[sid].created = now - 2 * Retention
           => ~HasSession(activeSessions', sid)]_vars

\* what a client's timeout must leave in place for request i, dispatched as
\* session sid: while the invocation has recorded no outcome it is still in
\* flight (or its settled promise is about to be handled), and once it has,
\* the session is terminal in the tally and, where the ledger has it, there
AfterTimeout(i, sid) ==
  /\ tally[sid].status = "processing" =>
       /\ \E w \in workers : w.sid = sid /\ w.req = i /\ w.pc \notin Settled
       /\ Recorded(sid, LAMBDA r : r.status = "processing")
       /\ tally[sid].completedInc + tally[sid].failedInc = 0
  /\ tally[sid].status # "processing" =>
       /\ tally[sid].status \in {"completed", "failed"}
       /\ Recorded(sid, LAMBDA r : r.status = tally[sid].status /\ r.endTime # Undefined)

\* C21 as stated: after the client's timeout fired on a dispatched request the
\* invocation is not aborted, its session reaches a terminal status and
\* exactly one of completed / failed is incremented.  An invocation for an
\* identifier without counters increments neither.
C21_TimeoutKeepsWorker ==
  \A i \in clientGone :
    Dispatched(i) =>
      /\ AfterTimeout(i, Pos(i))
      /\ tally[Pos(i)].status # "processing" =>
           tally[Pos(i)].completedInc + tally[Pos(i)].failedInc = 1

\* C21 amended: after the client's timeout (120 s, 180 s for kiosk-3) fired on
\* a dispatched request the invocation is not aborted: it stays in flight
\* until it records its outcome, its session then is 'completed' or 'failed',
\* and exactly one of completed / failed is incremented if the kiosk is
\* provisioned (neither otherwise); every provisioned kiosk's total stays
\* completed + failed + its invocations in flight
C21_TimeoutKeepsWorkerProvisioned ==
  /\ \A i \in clientGone :
       /\ now - requests[i].at >= ClientTimeout(requests[i].kiosk)
       /\ Dispatched(i) =>
            /\ AfterTimeout(i, Pos(i))
            /\ tally[Pos(i)].status # "processing" =>
                 tally[Pos(i)].completedInc + tally[Pos(i)].failedInc
                   = (IF requests[i].kiosk \in KnownKiosks THEN 1 ELSE 0)
  /\ clientGone # {} =>
       \A k \in KnownKiosks :
         kioskStats[k].total =
           kioskStats[k].completed + kioskStats[k].failed + Cardinality(Running(k))

\* C21 witness: the client of a kiosk-1 request gave up at 120 s, the one of a
\* kiosk-3 request still waits; the kiosk-1 invocation completed afterwards,
\* its session is 'completed' and completed reads 1
C21_Witness ==
  \E i \in clientGone, v \in 1..Len(requests) :
    /\ requests[i].kiosk = "kiosk-1" /\ Dispatched(i)
    /\ requests[v].kiosk = VipKiosk /\ v \notin clientGone /\ requests[v].at = requests[i].at
    /\ tally[Pos(i)].status = "completed"
    /\ \E j \in 1..Len(activeSessions) :
         /\ activeSessions[j].id = Pos(i)
         /\ activeSessions[j].status = "completed"
         /\ activeSessions[j].endTime - requests[i].at >= DefaultTimeout
    /\ kioskStats["kiosk-1"].completed = 1
    /\ kioskStats["kiosk-1"].total = 1

\* requests that carry no provisioned kiosk identifier
Unprovisioned == {i \in 1..Len(requests) : requests[i].kiosk \notin KnownKiosks}

\* C22 as stated: kioskStats holds counters for the provisioned identifiers
\* only, and a request with any other identifier (or none) is rejected at
\* admission.  The route lets such a request through under the identifier it
\* carries ('unknown' when it carries none) and its job runs.
C22_UnknownRejected ==
  /\ DOMAIN kioskStats = KnownKiosks
  /\ \A i \in Unprovisioned : requests[i].resp \in {429, 400} /\ ~Dispatched(i)

\* C22 amended: kioskStats holds counters for the provisioned identifiers
\* only; a request with any other identifier (or none) is admitted like any
\* other and its job runs, but it adds no record to kioskStats and changes no
\* counter of any kiosk
C22_UnknownNotProvisioned ==
  /\ DOMAIN kioskStats = KnownKiosks
  /\ \A i \in Unprovisioned :
       /\ (requests[i].fieldsOk /\ requests[i].resp \notin {429, 503}) =>
            Dispatched(i) \/ \E j \in 1..Len(queue) : queue[j].req = i
       /\ Dispatched(i) =>
            /\ tally[Pos(i)].kiosk = requests[i].kiosk
            /\ tally[Pos(i)].totalInc = 0
            /\ tally[Pos(i)].completedInc = 0
            /\ tally[Pos(i)].failedInc = 0
  /\ (\A i \in 1..Len(requests) : i \in Unprovisioned) => kioskStats = StatsInit

\* C22 witness: a request without kiosk identifier was served (answered 200,
\* its session 'completed' under 'unknown') and kioskStats is as at start
C22_Witness ==
  \E i \in Unprovisioned :
    /\ requests[i].resp = 200
    /\ \E j \in 1..Len(activeSessions) :
         /\ activeSessions[j].id = Pos(i)
         /\ activeSessions[j].kioskId = UnknownKiosk
         /\ activeSessions[j].status = "completed"
    /\ kioskStats = StatsInit

\* C23: a request with the identifier 'test-script' is never answered 429,
\* however many came before it in the window, and leaves the limiter's store
\* as it was; a request with any other identifier is counted under its own
\* key and is answered 429 exactly when that count exceeds the maximum
C23_BypassSkipsAccounting ==
  [][Len(requests') = Len(requests) + 1 =>
       LET r == requests'[Len(requests')]
       IN /\ r.kiosk = BypassId => r.resp # 429 /\ limiter' = limiter
          /\ r.kiosk # BypassId =>
               /\ limiter'[r.kiosk].totalHits =
                    (IF limiter[r.kiosk].resetTime > now
                     THEN limiter[r.kiosk].totalHits + 1 ELSE 1)
               /\ limiter'[r.kiosk].totalHits =
                    Cardinality({j \in 1..Len(requests') :
                                   /\ requests'[j].kiosk = r.kiosk
                                   /\ requests'[j].window = limiter'[r.kiosk].resetTime})
               /\ \A k \in LimiterKeys \ {r.kiosk} : limiter'[k] = limiter[k]
               /\ r.resp = 429 <=> limiter'[r.kiosk].totalHits > LimiterMax]_vars

\* C23 witness: more 'test-script' requests than the maximum arrived at one
\* instant and none was rejected, nothing is counted for 'test-script', and in
\* the same window the request over the maximum of another key was rejected
C23_Witness ==
  /\ Cardinality({i \in RequestsOf(BypassId) : requests[i].at = 0}) = LimiterMax + 1
  /\ \A i \in RequestsOf(BypassId) : requests[i].resp = 400
  /\ limiter[BypassId].totalHits = 0
  /\ Cardinality(RequestsOf(UnknownKiosk)) = LimiterMax + 1
  /\ \A i \in RequestsOf(UnknownKiosk) :
       requests[i].at = 0 /\ (requests[i].resp = 429 <=> Rank(i) = LimiterMax + 1)

\* the requests of the first run that the second run received as well
Common == SelectSeq(requests, LAMBDA r : r.kiosk # twin.other)

\* C24: two runs that receive the same requests at the same times except for
\* those of one kiosk give every request of every other kiosk (those without
\* identifier, keyed 'unknown', included) the same allow / reject decision
C24_KioskIsolation ==
  /\ Len(Common) = Len(twin.decisions)
  /\ \A n \in 1..Len(Common) :
       /\ Common[n].kiosk = twin.decisions[n].kiosk
       /\ Common[n].at = twin.decisions[n].at
       /\ (Common[n].resp = 429) <=> (twin.decisions[n].resp = 429)

\* C24 witness: the differing kiosk sent nothing in the first run and enough
\* to be over its maximum in the second, within the window in which another
\* kiosk went over its own maximum: that kiosk's sixth request was rejected in
\* both runs and its first five in neither
C24_Witness ==
  /\ RequestsOf(twin.other) = {}
  /\ twin.limiter[twin.other].totalHits > LimiterMax
  /\ Len(Common) = LimiterMax + 1
  /\ \A n \in 1..Len(Common) :
       /\ Common[n].kiosk = Common[1].kiosk
       /\ Common[n].at < WindowMs
       /\ (twin.decisions[n].resp = 429) <=> (n = LimiterMax + 1)
  /\ limiter[Common[1].kiosk].resetTime = twin.limiter[twin.other].resetTime

\* invocations whose generation call threw or answered without an image
GenerationFailed == {sid \in 1..Len(tally) : tally[sid].answer \in {"throw", "empty"}}

\* C25: an invocation issues the generation call at most once, and no task
\* gets a second invocation; when the call throws or answers without an image
\* the invocation has failed for good: its status is 'failed', it issues no
\* further call, writes nothing, and awaits nothing more
C25_NoRetry ==
  /\ \A sid \in 1..Len(tally) :
       /\ tally[sid].genCalls <= 1
       /\ tally[sid].answer # "" => tally[sid].genCalls = 1
       /\ \A w \in workers : (w.sid = sid /\ w.pc = "generate") =>
            tally[sid].genCalls = 1 /\ tally[sid].answer = ""
  /\ \A sid \in GenerationFailed :
       /\ tally[sid].status = "failed"
       /\ tally[sid].failedAt \in {"generate", "response"}
       /\ tally[sid].writes = 0
       /\ \A w \in workers : w.sid = sid => w.pc = "rejected"
  /\ \A a, b \in 1..Len(dispatchLog) :
       dispatchLog[a].req = dispatchLog[b].req => a = b

\* C25 witness: one invocation's call threw and another's answered without an
\* image; each made one call, both requests were answered 500 and no
\* invocation is left
C25_Witness ==
  \E a, b \in GenerationFailed :
    /\ tally[a].answer = "throw" /\ tally[b].answer = "empty"
    /\ tally[a].genCalls = 1 /\ tally[b].genCalls = 1
    /\ requests[dispatchLog[a].req].resp = 500
    /\ requests[dispatchLog[b].req].resp = 500
    /\ workers = {}

\* requests whose job waits in the queue, and requests refused by the route
Queued == {queue[j].req : j \in 1..Len(queue)}
Refused == {i \in 1..Len(requests) : requests[i].resp \in {429, 400, 503}}

\* the requests the ledger's records belong to
SessionOwners ==
  {dispatchLog[activeSessions[j].id].req :
     j \in {x \in 1..Len(activeSessions) : activeSessions[x].id \in 1..Len(dispatchLog)}}

\* C26: every ledger record belongs to a job that was dequeued and started:
\* no record belongs to a job that still waits or to a request that was
\* refused, and the records in 'processing' are never more than the
\* invocations that run, hence never more than the concurrency ceiling
C26_SessionAtDequeue ==
  /\ \A j \in 1..Len(activeSessions) : activeSessions[j].id \in 1..Len(dispatchLog)
  /\ SessionOwners \cap (Queued \cup Refused) = {}
  /\ Len(tally) = Len(dispatchLog)
  /\ Cardinality({j \in 1..Len(activeSessions) : activeSessions[j].status = "processing"})
       <= Cardinality({w \in workers : w.pc \notin Settled})
  /\ Cardinality({w \in workers : w.pc \notin Settled}) <= Concurrency

\* C26 witness: eleven jobs wait, a request was refused for capacity, two
\* invocations run, and the ledger's only 'processing' records are theirs
C26_Witness ==
  /\ Len(queue) = QueueCeiling + 1
  /\ \E i \in Refused : requests[i].resp = 503
  /\ Cardinality({w \in workers : w.pc \notin Settled}) = Concurrency
  /\ Cardinality({j \in 1..Len(activeSessions) : activeSessions[j].status = "processing"})
       = Concurrency
  /\ Cardinality(SessionOwners) < Len(requests) - QueueCeiling - 1

\* C27: no step (a request, a worker's outcome, the queue's timers, the
\* sweep, a monitoring read) lowers the total, completed or failed counter of
\* any kiosk or removes a kiosk's counters; the sweep and the monitoring reads
\* leave every counter as it is
C27_CountersMonotonic ==
  [][/\ DOMAIN kioskStats' = DOMAIN kioskStats
     /\ \A k \in DOMAIN kioskStats :
          /\ kioskStats'[k].total >= kioskStats[k].total
          /\ kioskStats'[k].completed >= kioskStats[k].completed
          /\ kioskStats'[k].failed >= kioskStats[k].failed
     /\ (cleanupTimer' # cleanupTimer \/ lastRead' # <<>>) =>
          kioskStats' = kioskStats]_vars

\* C27 witness: after visitors were served and turned away at its booth, the
\* sweep has emptied the ledger and the monitor was read; kiosk-1 still counts
\* its submissions, completions and failures
C27_Witness ==
  /\ activeSessions = <<>>
  /\ lastRead # <<>> /\ lastRead[1].route = "monitor"
  /\ lastRead[1].kiosks = kioskStats
  /\ kioskStats["kiosk-1"].completed > 0
  /\ kioskStats["kiosk-1"].failed > 0
  /\ kioskStats["kiosk-1"].total =
       kioskStats["kiosk-1"].completed + kioskStats["kiosk-1"].failed

\* why request i was answered with an error: the client's input (a required
\* field missing, a background that does not exist), the server's load (the
\* kiosk's window is full, the queue is over its ceiling), or a fault on the
\* server's side (the asset read, the generation call, the output write)
ErrorClass(i) ==
  IF requests[i].resp = 0 \/ requests[i].resp = 200 THEN "none"
  ELSE IF requests[i].resp \in {429, 503} THEN "load"
  ELSE IF ~requests[i].fieldsOk THEN "input"
  ELSE IF Dispatched(i) /\ ~tally[Pos(i)].bgOk THEN "input"
  ELSE "fault"

\* C28: two requests answered with errors of different classes (client input,
\* load, server-side fault) are answered with different statuses.  A request
\* with a background that does not exist is answered 500, like a request whose
\* generation call failed.
C28_StatusSegregation ==
  \A i, j \in 1..Len(requests) :
    (/\ ErrorClass(i) # "none"
     /\ ErrorClass(j) # "none"
     /\ ErrorClass(i) # ErrorClass(j))
    => requests[i].resp # requests[j].resp


FailedWrite == {sid \in 1..Len(tally) : tally[sid].failedAt = "writeFile"}

\* C30: a session is 'completed', and its invocation has incremented
\* completed, only if the output write was issued and resolved; an invocation
\* whose output write failed after the generation call returned an image is
\* 'failed' with the write's error as its error text, left nothing in the
\* output sink, did not increment completed, and its request is answered 500
\* with that error as details
C30_CompletedAfterPersisted ==
  /\ \A sid \in 1..Len(tally) :
       (tally[sid].status = "completed" \/ tally[sid].completedInc > 0) =>
         /\ tally[sid].persisted = 1
         /\ tally[sid].writes = 1
         /\ tally[sid].failedAt = ""
  /\ \A i \in 1..Len(activeSessions) :
       activeSessions[i].status = "completed" =>
         tally[activeSessions[i].id].persisted = 1
  /\ \A sid \in FailedWrite :
       /\ tally[sid].genCalls = 1
       /\ tally[sid].image # ""
       /\ tally[sid].persisted = 0
       /\ tally[sid].status = "failed"
       /\ tally[sid].error = "ENOSPC: no space left on device"
       /\ tally[sid].completedInc = 0
       /\ Recorded(sid, LAMBDA r : r.status = "failed" /\ r.error = tally[sid].error)
       /\ requests[dispatchLog[sid].req].resp \in {0, 500}
       /\ requests[dispatchLog[sid].req].resp = 500 =>
            requests[dispatchLog[sid].req].details = tally[sid].error

\* C30 witness: at a provisioned kiosk one invocation persisted its output and
\* is 'completed', another one's output write failed; the kiosk counts one
\* completion and one failure, and the second request was answered 500
C30_Witness ==
  \E s1, s2 \in 1..Len(tally) :
    /\ tally[s1].kiosk = "kiosk-1" /\ tally[s2].kiosk = "kiosk-1"
    /\ tally[s1].status = "completed" /\ tally[s1].persisted = 1
    /\ s2 \in FailedWrite
    /\ kioskStats["kiosk-1"].completed = 1
    /\ kioskStats["kiosk-1"].failed = 1
    /\ requests[dispatchLog[s2].req].resp = 500
    /\ \E i \in 1..Len(activeSessions) :
         activeSessions[i].id = s2 /\ activeSessions[i].status = "failed"

\* C31: every record of the ledger carries the kioskId and the startTime its
\* session was created with, whatever updates it has received.  A worker whose
\* record the sweep has deleted writes its terminal update into a new record
\* that has neither.
C31_RecordKeepsOrigin ==
  \A i \in 1..Len(activeSessions) :
    /\ activeSessions[i].kioskId = tally[activeSessions[i].id].kiosk
    /\ activeSessions[i].startTime = tally[activeSessions[i].id].created

\* C32: in every reachable state at most QueueCeiling + 1 jobs wait in the
\* queue: the route reads the queue's size and adds its job in one synchronous
\* segment, so no other request can add a job between the two
C32_QueueBounded == Len(queue) <= QueueCeiling + 1

\* C32 witness: with ten jobs waiting a request was let in and became the
\* eleventh, the next one was answered 503, and eleven jobs wait
C32_Witness ==
  /\ Len(queue) = QueueCeiling + 1
  /\ Len(requests) > Len(BacklogKiosks)
  /\ requests[Len(BacklogKiosks)].kiosk # UnknownKiosk
  /\ requests[Len(BacklogKiosks)].resp = 0
  /\ \E j \in 1..Len(queue) : queue[j].req = Len(BacklogKiosks)
  /\ requests[Len(BacklogKiosks) + 1].resp = 503

\* the requests of kiosk k that fell into the window ending at time t
InWindow(k, t) ==
  {i \in 1..Len(requests) : requests[i].kiosk = k /\ requests[i].window = t}

\* C33: every request the limiter does not skip uses up one unit of its
\* kiosk's window, whether it is then answered 400, 503, 429 or goes on to the
\* queue, and no other kiosk's window is touched; so the requests of one
\* window that were not answered 429 number at most LimiterMax, the refused
\* ones included
C33_AccountingFirst ==
  [][Len(requests') = Len(requests) + 1 =>
       LET r == requests'[Len(requests')]
           key == KeyGenerator(r.kiosk)
       IN /\ limiter'[key].totalHits =
               (IF limiter[key].resetTime > now
                THEN limiter[key].totalHits + 1 ELSE 1)
          /\ \A k \in DOMAIN limiter : k # key => limiter'[k] = limiter[k]
          /\ r.resp = 429 <=> limiter'[key].totalHits > LimiterMax
          /\ r.resp \in {400, 503} => queue' = queue /\ workers' = workers
          /\ Cardinality({i \in 1..Len(requests') :
                            /\ requests'[i].kiosk = r.kiosk
                            /\ requests'[i].window = r.window
                            /\ requests'[i].resp # 429}) <= LimiterMax]_vars

\* C33 witness: a request of kiosk-3 was answered 429 although none of the
\* kiosk's requests ever reached the queue: the five before it in the window
\* were answered 400 or 503, some of each
C33_Witness ==
  \E i \in 1..Len(requests) :
    /\ requests[i].kiosk = VipKiosk
    /\ requests[i].resp = 429
    /\ \A j \in 1..Len(requests) :
         requests[j].kiosk = VipKiosk => requests[j].resp \in {400, 503, 429}
    /\ \A sid \in 1..Len(dispatchLog) : requests[dispatchLog[sid].req].kiosk # VipKiosk
    /\ \A j \in 1..Len(queue) : queue[j].kiosk # VipKiosk
    /\ \E j \in InWindow(VipKiosk, requests[i].window) : requests[j].resp = 400
    /\ \E j \in InWindow(VipKiosk, requests[i].window) : requests[j].resp = 503
    /\ Cardinality(InWindow(VipKiosk, requests[i].window)) = LimiterMax + 1

\* C34: a run of the session sweep keeps every record whose startTime lies
\* within the last hour (the hour's first instant included), as it is and in
\* its place; every record it leaves was there before; it changes neither
\* kioskStats nor the queue, its counts and timers, nor any invocation,
\* request or limiter window
C34_SweepFrame ==
  [][cleanupTimer' # cleanupTimer =>
       /\ UNCHANGED <<kioskStats, queue, pendingCount, intervalCount,
                      intervalId, intervalEnd, timeoutId, workers, nextSid,
                      requests, limiter, now>>
       /\ \A i \in 1..Len(activeSessions) :
            (/\ activeSessions[i].startTime # Undefined
             /\ activeSessions[i].startTime >= now - Retention) =>
              \E j \in 1..Len(activeSessions') : activeSessions'[j] = activeSessions[i]
       /\ \A j \in 1..Len(activeSessions') :
            \E i \in 1..Len(activeSessions) : activeSessions[i] = activeSessions'[j]
       /\ \A j, k \in 1..Len(activeSessions') :
            j < k => \E a, b \in 1..Len(activeSessions) :
                        /\ a < b
                        /\ activeSessions[a] = activeSessions'[j]
                        /\ activeSessions[b] = activeSessions'[k]]_vars

\* C34 witness: the sweep has just run; it removed the record of a session
\* started more than an hour ago and kept that of a session started exactly
\* an hour ago, and the counters still show both submissions
C34_Witness ==
  /\ cleanupTimer = now + SweepPeriod
  /\ Len(tally) = 2
  /\ tally[1].created < now - Retention
  /\ tally[1].kiosk = "kiosk-1" /\ tally[2].kiosk = "kiosk-1"
  /\ ~HasSession(activeSessions, 1)
  /\ tally[2].created = now - Retention
  /\ Recorded(2, LAMBDA r : r.startTime = now - Retention)
  /\ HasSession(activeSessions, 2)
  /\ kioskStats["kiosk-1"].total = 2

\* the requests so far all carry the identifier of a provisioned kiosk
ProvisionedOnly == \A i \in 1..Len(requests) : requests[i].kiosk \in KnownKiosks

C36_NoResetWhileLoading ==
  app # NoApp =>
    /\ app.isLoading => app.timer = NoTimer
    /\ app.request # <<>> => app.isLoading
    /\ ~app.resetInFlight

\* a request is in flight past the moment at which the timer that was armed
\* when it started would have fired
C36_Witness ==
  /\ app # NoApp
  /\ app.request # <<>>
  /\ app.isLoading
  /\ app.cancelled # NoTimer
  /\ app.cancelled <= app.clock
  /\ app.timer = NoTimer

\* ------------------------------------------------------------------ C37
\* C37: whenever handleGenerate ends with an error (503, 429, another
\* status, no response, the timeout, a body without success) the wizard is
\* on the review step and shows an error message.
C37_ErrorKeepsReview ==
  (app # NoApp /\ app.lastError # <<>>) =>
    /\ app.lastError.step = ReviewStep(app.variant)
    /\ app.lastError.text # NoError

\* the rest of C37: a request that began loading stops loading, whatever
\* its outcome
LoadingClears == (app.isLoading) ~> (~app.isLoading)

\* the rest of C37: the result step is entered only when a response with
\* success = true has arrived, and an error moves the wizard nowhere
ResultAfterSuccess ==
  [][/\ (app'.currentStep = ResultStep(app.variant)
          /\ app.currentStep # ResultStep(app.variant))
        => app'.successes > 0
     /\ app'.lastError # app.lastError
        => app'.currentStep = app.currentStep /\ app'.error # NoError]_vars

====
